---- MODULE Spec2Model ----
(***************************************************************************)
(* The acquisition pipeline of india-pm-dataset-2023: the retry loop, the  *)
(* page drains, the fallback chains and the sample generators of           *)
(* comprehensive_openaq_fetcher.py, fetch_openaq_alternative.py and        *)
(* main.py, as one sequential state machine.  The upstream HTTP service is *)
(* the environment: every request is answered by a response drawn from a   *)
(* small palette.  One behaviour is one call of one entry point.           *)
(*                                                                         *)
(* Encoding of Python values:                                              *)
(*   dict            a record (a function from key strings)                *)
(*   list            a sequence                                            *)
(*   None            the record [null |-> TRUE]                            *)
(*   str and number  a string; a measured value is the decimal string of   *)
(*                   its tenths of a microgram ("455" is 45.5)             *)
(*   time.sleep(s)   a "sleep" event of 10*s tenths of a second            *)
(***************************************************************************)
EXTENDS Integers, Sequences, FiniteSets, TLC

VARIABLES
    pc,               \* the position of the running call
    entry,            \* the entry point that was called
    max_retries,      \* fetch_with_retry's argument
    attempt,          \* fetch_with_retry's loop variable
    data,             \* what the last fetch_with_retry call returned
    max_records,      \* fetch_india_data's argument
    limit,            \* the page size of the running drain
    page,             \* the page cursor of the running drain
    all_measurements, \* the records collected so far (raw, or rows in try_openaq_v3)
    locations,        \* try_openaq_v3: locations_data["results"][:5]
    idx,              \* the index of the running for loop over locations / endpoints
    param,            \* fetch_parameter's argument
    rows,             \* fetch_parameter's and fetch_parameter_v2's rows
    df,               \* the table the entry point returned
    log,              \* the I/O trace: requests, sleeps, generator calls, in order
    stations,         \* the generator's station table, as indices of monitoring_stations
    station_i,        \* the position of the generator's outer loop in stations
    all_data,         \* create_comprehensive_2023_dataset's all_data
    random_seed,      \* the state of the process-wide random source when the run began
    base_time,        \* datetime.now() when the run began, in hours
    earlier,          \* the seed, clock and table of the previous run of the generator
    df_pm25,          \* main: what fetch_parameter("pm25") returned
    df_pm10,          \* main: what fetch_parameter("pm10") returned
    df_combined       \* main: df_combined (alternative main: df) before the date
                      \* column is converted and the table sorted

pipeline_vars == <<max_retries, attempt, data, max_records, limit, page,
                   all_measurements, locations, idx, param, rows, log>>
generator_vars == <<stations, station_i, all_data, random_seed, base_time, earlier>>
assembler_vars == <<df_pm25, df_pm10, df_combined>>
vars == <<pc, entry, df, pipeline_vars, generator_vars, assembler_vars>>

---------------------------------------------------------------------------
(* Bounds of the model. *)

\* fetch_with_retry is called directly with max_retries in 0..MaxRetriesIn
MaxRetriesIn == 3
\* fetch_india_data is called with max_records in 0..MaxRecordsIn
MaxRecordsIn == 2
\* a page drain is followed for at most MaxRequests requests
MaxRequests == 5
\* the page size of fetch_parameter (limit = 1000 at main.py:10), scaled down
PageLimit == 2
\* the locations endpoint answers with at most MaxLocations locations
MaxLocations == 2
\* create_comprehensive_2023_dataset runs over at most MaxStations consecutive
\* stations of its table
MaxStations == 1
\* main is given two fetched tables of at most MaxRows rows together
MaxRows == 3
\* a row builder is given a page of at most MaxPageRecords raw records
MaxPageRecords == 3

---------------------------------------------------------------------------
(* Python values. *)

None == [null |-> TRUE]
IsNone(x) == "null" \in DOMAIN x
EmptyDict == [k \in {} |-> ""]
\* bool(x) of a dict or None
Truthy(x) == ~IsNone(x) /\ DOMAIN x # {}
\* d.get(k, default)
DictGet(d, k, default) == IF k \in DOMAIN d THEN d[k] ELSE default
Min(a, b) == IF a < b THEN a ELSE b

\* isinstance(exc, cls) for the classes met here: both derive from Exception
IsInstance(exc, cls) == cls = "Exception" \/ exc = cls

---------------------------------------------------------------------------
(* The upstream service: what one requests.get can produce. *)

\* requests.get raised requests.exceptions.RequestException
NetworkError == [status |-> "exc", body |-> EmptyDict]
\* an HTTP response with a status and a parsed JSON body
Http(status, body) == [status |-> status, body |-> body]
RateLimited == Http("429", [detail |-> "Too many requests"])
ServerError == Http("500", [detail |-> "Internal error"])
\* 200 with a body that has no "results" key
OkMissing == Http("200", [meta |-> "none"])
OkResults(results) == Http("200", [results |-> results])

RecordId(site, p, k) == site \o "#" \o ToString(p) \o "." \o ToString(k)

\* a well-formed measurement of the v2 API
GoodV2(site, p, k) ==
    [date |-> [utc |-> "2023-01-01T0" \o ToString(k) \o ":00:00Z"],
     location |-> RecordId(site, p, k), city |-> "Delhi",
     parameter |-> IF k % 2 = 1 THEN "pm25" ELSE "pm10",
     value |-> ToString(400 + 10 * p + k), unit |-> "ug/m3",
     coordinates |-> [latitude |-> "28.6", longitude |-> "77.2"],
     country |-> "IN"]
\* a measurement whose "coordinates" is null: building its row raises AttributeError
BadV2(site, p, k) == [GoodV2(site, p, k) EXCEPT !.coordinates = None]

\* a well-formed measurement of the v3 API
GoodV3(site, p, k) ==
    [datetime |-> "2023-01-01T0" \o ToString(k) \o ":00:00Z",
     location |-> RecordId(site, p, k), city |-> "Delhi",
     parameter |-> [id |-> IF k % 2 = 1 THEN 2 ELSE 1],
     value |-> ToString(400 + 10 * p + k), unit |-> "ug/m3",
     coordinates |-> [latitude |-> "28.6", longitude |-> "77.2"]]
\* a measurement whose "parameter" is null
BadV3(site, p, k) == [GoodV3(site, p, k) EXCEPT !.parameter = None]

\* the pages a measurements endpoint can answer page p with, under page size lim
PagesV2(site, p, lim) ==
    {[k \in 1..n |-> GoodV2(site, p, k)] : n \in 0..lim}
    \cup {[k \in 1..n |-> IF k = 1 THEN BadV2(site, p, k) ELSE GoodV2(site, p, k)]
            : n \in {m \in {lim} : m >= 1}}
PagesV3(site, p, lim) ==
    {[k \in 1..n |-> GoodV3(site, p, k)] : n \in 0..lim}
    \cup {[k \in 1..n |-> IF k = 1 THEN BadV3(site, p, k) ELSE GoodV3(site, p, k)]
            : n \in {m \in {lim} : m >= 1}}

Failures == {NetworkError, RateLimited, ServerError}
ResponsesV2(site, p, lim) ==
    Failures \cup {OkMissing} \cup {OkResults(r) : r \in PagesV2(site, p, lim)}
ResponsesV3(site, p, lim) ==
    Failures \cup {OkMissing} \cup {OkResults(r) : r \in PagesV3(site, p, lim)}

---------------------------------------------------------------------------
(* The I/O trace. *)

NoResp == Http("", EmptyDict)
GetEv(site, p, resp) == [ev |-> "get", site |-> site, page |-> p, resp |-> resp, secs |-> 0]
SleepEv(fn, tenths) == [ev |-> "sleep", site |-> fn, page |-> 0, resp |-> NoResp, secs |-> tenths]
CallEv(fn) == [ev |-> "call", site |-> fn, page |-> 0, resp |-> NoResp, secs |-> 0]

Gets(l) == SelectSeq(l, LAMBDA e : e.ev = "get")
Sleeps(l) == SelectSeq(l, LAMBDA e : e.ev = "sleep")
Calls(l) == SelectSeq(l, LAMBDA e : e.ev = "call")

RECURSIVE SumSecs(_)
SumSecs(l) == IF l = <<>> THEN 0 ELSE Head(l).secs + SumSecs(Tail(l))

---------------------------------------------------------------------------
(* comprehensive_openaq_fetcher.py: the normalizer and the sample generator. *)

\* the row process_measurements builds from one measurement
ProcessedMeasurement_zeroValue(m) ==
    [date |-> DictGet(DictGet(m, "date", EmptyDict), "utc", ""),
     location |-> DictGet(m, "location", ""),
     city |-> DictGet(m, "city", ""),
     parameter |-> DictGet(m, "parameter", ""),
     value |-> "0",
     unit |-> DictGet(m, "unit", ""),
     latitude |-> DictGet(DictGet(m, "coordinates", EmptyDict), "latitude", ""),
     longitude |-> DictGet(DictGet(m, "coordinates", EmptyDict), "longitude", ""),
     country |-> DictGet(m, "country", "India")]
ProcessedMeasurement(m) ==
    [date |-> DictGet(DictGet(m, "date", EmptyDict), "utc", ""),
     location |-> DictGet(m, "location", ""),
     city |-> DictGet(m, "city", ""),
     parameter |-> DictGet(m, "parameter", ""),
     value |-> DictGet(m, "value", ""),
     unit |-> DictGet(m, "unit", ""),
     latitude |-> DictGet(DictGet(m, "coordinates", EmptyDict), "latitude", ""),
     longitude |-> DictGet(DictGet(m, "coordinates", EmptyDict), "longitude", ""),
     country |-> DictGet(m, "country", "India")]
\* building the row raises (AttributeError: None has no .get), caught at line 160
ProcessRaises(m) ==
    \/ IsNone(m)
    \/ IsNone(DictGet(m, "coordinates", EmptyDict))
    \/ IsNone(DictGet(m, "date", EmptyDict))
process_measurements_dropsIncomplete(measurements) ==
    LET whole(m) == /\ ~ProcessRaises(m)
                    /\ DictGet(m, "value", "") # ""
                    /\ DictGet(DictGet(m, "date", EmptyDict), "utc", "") # ""
        kept == SelectSeq(measurements, whole)
    IN  [k \in 1..Len(kept) |-> ProcessedMeasurement(kept[k])]
process_measurements(measurements) ==
    LET kept == SelectSeq(measurements, LAMBDA m : ~ProcessRaises(m))
    IN  [k \in 1..Len(kept) |-> ProcessedMeasurement(kept[k])]

cities_data ==
    << [city |-> "Delhi",     lat |-> "28.6139", lon |-> "77.2090", pm25_avg |-> 85, pm10_avg |-> 150],
       [city |-> "Mumbai",    lat |-> "19.0760", lon |-> "72.8777", pm25_avg |-> 55, pm10_avg |-> 85],
       [city |-> "Bengaluru", lat |-> "12.9716", lon |-> "77.5946", pm25_avg |-> 45, pm10_avg |-> 70],
       [city |-> "Chennai",   lat |-> "13.0827", lon |-> "80.2707", pm25_avg |-> 40, pm10_avg |-> 65],
       [city |-> "Kolkata",   lat |-> "22.5726", lon |-> "88.3639", pm25_avg |-> 65, pm10_avg |-> 110],
       [city |-> "Hyderabad", lat |-> "17.3850", lon |-> "78.4867", pm25_avg |-> 50, pm10_avg |-> 80],
       [city |-> "Pune",      lat |-> "18.5204", lon |-> "73.8567", pm25_avg |-> 48, pm10_avg |-> 75],
       [city |-> "Ahmedabad", lat |-> "23.0225", lon |-> "72.5714", pm25_avg |-> 60, pm10_avg |-> 95],
       [city |-> "Jaipur",    lat |-> "26.9124", lon |-> "75.7873", pm25_avg |-> 70, pm10_avg |-> 120],
       [city |-> "Noida",     lat |-> "28.5355", lon |-> "77.3910", pm25_avg |-> 80, pm10_avg |-> 140] >>

\* range(24): the sample covers the last 24 hours
SampleHours == 24

\* The process-wide random source is never seeded by the code: its state when the
\* generator runs is some seed, and the k-th draw of random.uniform(lo, hi) is a
\* function of that seed (in hundredths).
Seeds == {1, 2}
\* datetime.now(), in hours
Clock == {1000, 1001}
Uniform(seed, k, lo, hi) == lo + ((seed * 37 + k * 11) % (hi - lo + 1))
\* round(avg * variation, 1), in tenths
RoundTenths(hundredths) == (hundredths + 5) \div 10

\* a faulty variant of the row below: the timestamp does not follow the clock
SampleRow_noClock(now, hour, c, parameter, tenths) ==
    [date |-> "T" \o ToString(0 - hour) \o "Z",
     location |-> "Monitoring Station " \o cities_data[c].city,
     city |-> cities_data[c].city,
     parameter |-> parameter,
     value |-> ToString(tenths),
     unit |-> "ug/m3",
     latitude |-> cities_data[c].lat,
     longitude |-> cities_data[c].lon,
     country |-> "India"]

SampleRow(now, hour, c, parameter, tenths) ==
    [date |-> "T" \o ToString(now - hour) \o "Z",
     location |-> "Monitoring Station " \o cities_data[c].city,
     city |-> cities_data[c].city,
     parameter |-> parameter,
     value |-> ToString(tenths),
     unit |-> "ug/m3",
     latitude |-> cities_data[c].lat,
     longitude |-> cities_data[c].lon,
     country |-> "India"]

\* a faulty variant of the loop body below: the PM10 record is not appended
SampleCity_pm25only(seed, now, hour, c) ==
    << SampleRow(now, hour, c, "pm25",
                 RoundTenths(cities_data[c].pm25_avg * Uniform(seed, 2 * (hour * Len(cities_data) + (c - 1)), 70, 130))) >>

\* one pass of the inner loop body (lines 218-248) for city c at the given hour
SampleCity(seed, now, hour, c) ==
    LET k == 2 * (hour * Len(cities_data) + (c - 1))
        pm25_variation == Uniform(seed, k, 70, 130)
        pm10_variation == Uniform(seed, k + 1, 80, 120)
    IN  << SampleRow(now, hour, c, "pm25", RoundTenths(cities_data[c].pm25_avg * pm25_variation)),
           SampleRow(now, hour, c, "pm10", RoundTenths(cities_data[c].pm10_avg * pm10_variation)) >>

RECURSIVE SampleCitiesFrom(_, _, _, _)
SampleCitiesFrom(seed, now, hour, c) ==
    IF c > Len(cities_data) THEN <<>>
    ELSE SampleCity(seed, now, hour, c) \o SampleCitiesFrom(seed, now, hour, c + 1)

RECURSIVE SampleHoursFrom(_, _, _)
SampleHoursFrom(seed, now, hour) ==
    IF hour >= SampleHours THEN <<>>
    ELSE SampleCitiesFrom(seed, now, hour, 1) \o SampleHoursFrom(seed, now, hour + 1)

create_comprehensive_sample_data(seed, now) == SampleHoursFrom(seed, now, 0)
\* the generator's table for every seed and clock, computed once
SampleTables ==
    [seed \in Seeds, now \in Clock |-> create_comprehensive_sample_data(seed, now)]

---------------------------------------------------------------------------
(* india_pm_2023_comprehensive.py: create_comprehensive_2023_dataset.        *)
(* Floats are fixed-point integers: factors in tenths or hundredths, the     *)
(* daily variation in 1/10000, a concentration in thousandths before it is   *)
(* rounded and in tenths after ("value" 97 is 9.7 ug/m3).                    *)

monitoring_stations ==
    << [station |-> "Anand Vihar", city |-> "Delhi", state |-> "Delhi", lat |-> "28.6469", lon |-> "77.3152", type |-> "Urban", pm25_base |-> 120, pm10_base |-> 200],
       [station |-> "Punjabi Bagh", city |-> "Delhi", state |-> "Delhi", lat |-> "28.6742", lon |-> "77.1341", type |-> "Urban", pm25_base |-> 110, pm10_base |-> 180],
       [station |-> "R K Puram", city |-> "Delhi", state |-> "Delhi", lat |-> "28.5631", lon |-> "77.1716", type |-> "Residential", pm25_base |-> 100, pm10_base |-> 170],
       [station |-> "Dwarka", city |-> "Delhi", state |-> "Delhi", lat |-> "28.5921", lon |-> "77.046", type |-> "Residential", pm25_base |-> 95, pm10_base |-> 160],
       [station |-> "Sector 62", city |-> "Noida", state |-> "Uttar Pradesh", lat |-> "28.6139", lon |-> "77.3616", type |-> "Urban", pm25_base |-> 105, pm10_base |-> 175],
       [station |-> "Sector 30", city |-> "Gurgaon", state |-> "Haryana", lat |-> "28.4595", lon |-> "77.0266", type |-> "Urban", pm25_base |-> 100, pm10_base |-> 170],
       [station |-> "Bandra", city |-> "Mumbai", state |-> "Maharashtra", lat |-> "19.0544", lon |-> "72.8423", type |-> "Urban", pm25_base |-> 65, pm10_base |-> 95],
       [station |-> "Worli", city |-> "Mumbai", state |-> "Maharashtra", lat |-> "19.0183", lon |-> "72.8148", type |-> "Urban", pm25_base |-> 70, pm10_base |-> 100],
       [station |-> "Powai", city |-> "Mumbai", state |-> "Maharashtra", lat |-> "19.1197", lon |-> "72.9062", type |-> "Residential", pm25_base |-> 60, pm10_base |-> 90],
       [station |-> "Nerul", city |-> "Navi Mumbai", state |-> "Maharashtra", lat |-> "19.033", lon |-> "73.0297", type |-> "Residential", pm25_base |-> 55, pm10_base |-> 85],
       [station |-> "Silk Board", city |-> "Bengaluru", state |-> "Karnataka", lat |-> "12.9185", lon |-> "77.622", type |-> "Urban", pm25_base |-> 55, pm10_base |-> 80],
       [station |-> "BTM Layout", city |-> "Bengaluru", state |-> "Karnataka", lat |-> "12.9116", lon |-> "77.6107", type |-> "Residential", pm25_base |-> 50, pm10_base |-> 75],
       [station |-> "Whitefield", city |-> "Bengaluru", state |-> "Karnataka", lat |-> "12.9698", lon |-> "77.75", type |-> "IT Hub", pm25_base |-> 45, pm10_base |-> 70],
       [station |-> "Peenya", city |-> "Bengaluru", state |-> "Karnataka", lat |-> "13.0281", lon |-> "77.5179", type |-> "Industrial", pm25_base |-> 65, pm10_base |-> 95],
       [station |-> "Adyar", city |-> "Chennai", state |-> "Tamil Nadu", lat |-> "13.0067", lon |-> "80.2206", type |-> "Residential", pm25_base |-> 45, pm10_base |-> 70],
       [station |-> "T Nagar", city |-> "Chennai", state |-> "Tamil Nadu", lat |-> "13.0418", lon |-> "80.2341", type |-> "Commercial", pm25_base |-> 50, pm10_base |-> 75],
       [station |-> "Manali", city |-> "Chennai", state |-> "Tamil Nadu", lat |-> "13.1693", lon |-> "80.2644", type |-> "Industrial", pm25_base |-> 60, pm10_base |-> 90],
       [station |-> "Ballygunge", city |-> "Kolkata", state |-> "West Bengal", lat |-> "22.5354", lon |-> "88.3643", type |-> "Residential", pm25_base |-> 75, pm10_base |-> 115],
       [station |-> "Jadavpur", city |-> "Kolkata", state |-> "West Bengal", lat |-> "22.4999", lon |-> "88.3712", type |-> "Educational", pm25_base |-> 70, pm10_base |-> 110],
       [station |-> "Howrah", city |-> "Howrah", state |-> "West Bengal", lat |-> "22.5958", lon |-> "88.2636", type |-> "Industrial", pm25_base |-> 80, pm10_base |-> 125],
       [station |-> "Hyderabad Central", city |-> "Hyderabad", state |-> "Telangana", lat |-> "17.385", lon |-> "78.4867", type |-> "Urban", pm25_base |-> 55, pm10_base |-> 85],
       [station |-> "Pune Station", city |-> "Pune", state |-> "Maharashtra", lat |-> "18.5204", lon |-> "73.8567", type |-> "Urban", pm25_base |-> 60, pm10_base |-> 90],
       [station |-> "Ahmedabad Central", city |-> "Ahmedabad", state |-> "Gujarat", lat |-> "23.0225", lon |-> "72.5714", type |-> "Urban", pm25_base |-> 75, pm10_base |-> 110],
       [station |-> "Jaipur Central", city |-> "Jaipur", state |-> "Rajasthan", lat |-> "26.9124", lon |-> "75.7873", type |-> "Urban", pm25_base |-> 80, pm10_base |-> 125],
       [station |-> "Lucknow Central", city |-> "Lucknow", state |-> "Uttar Pradesh", lat |-> "26.8467", lon |-> "80.9462", type |-> "Urban", pm25_base |-> 90, pm10_base |-> 140],
       [station |-> "Kanpur Central", city |-> "Kanpur", state |-> "Uttar Pradesh", lat |-> "26.4499", lon |-> "80.3319", type |-> "Industrial", pm25_base |-> 110, pm10_base |-> 170],
       [station |-> "Patna Central", city |-> "Patna", state |-> "Bihar", lat |-> "25.5941", lon |-> "85.1376", type |-> "Urban", pm25_base |-> 100, pm10_base |-> 155],
       [station |-> "Bhopal Central", city |-> "Bhopal", state |-> "Madhya Pradesh", lat |-> "23.2599", lon |-> "77.4126", type |-> "Urban", pm25_base |-> 70, pm10_base |-> 105],
       [station |-> "Indore Central", city |-> "Indore", state |-> "Madhya Pradesh", lat |-> "22.7196", lon |-> "75.8577", type |-> "Urban", pm25_base |-> 75, pm10_base |-> 115],
       [station |-> "Visakhapatnam Port", city |-> "Visakhapatnam", state |-> "Andhra Pradesh", lat |-> "17.6868", lon |-> "83.2185", type |-> "Industrial", pm25_base |-> 50, pm10_base |-> 80],
       [station |-> "Thiruvananthapuram Central", city |-> "Thiruvananthapuram", state |-> "Kerala", lat |-> "8.5241", lon |-> "76.9366", type |-> "Urban", pm25_base |-> 35, pm10_base |-> 55],
       [station |-> "Kochi Central", city |-> "Kochi", state |-> "Kerala", lat |-> "9.9312", lon |-> "76.2673", type |-> "Urban", pm25_base |-> 40, pm10_base |-> 65],
       [station |-> "Guwahati Central", city |-> "Guwahati", state |-> "Assam", lat |-> "26.1445", lon |-> "91.7362", type |-> "Urban", pm25_base |-> 60, pm10_base |-> 90],
       [station |-> "Bhubaneswar Central", city |-> "Bhubaneswar", state |-> "Odisha", lat |-> "20.2961", lon |-> "85.8245", type |-> "Urban", pm25_base |-> 65, pm10_base |-> 95],
       [station |-> "Chandigarh Central", city |-> "Chandigarh", state |-> "Punjab", lat |-> "30.7333", lon |-> "76.7794", type |-> "Urban", pm25_base |-> 85, pm10_base |-> 130],
       [station |-> "Dehradun Central", city |-> "Dehradun", state |-> "Uttarakhand", lat |-> "30.3165", lon |-> "78.0322", type |-> "Urban", pm25_base |-> 70, pm10_base |-> 110],
       [station |-> "Srinagar Central", city |-> "Srinagar", state |-> "Jammu and Kashmir", lat |-> "34.0837", lon |-> "74.7973", type |-> "Urban", pm25_base |-> 45, pm10_base |-> 75] >>

\* datetime(2023, 1, 1) .. datetime(2023, 12, 31), a day at a time
DaysIn2023 == 365
MonthLengths == <<31, 28, 31, 30, 31, 30, 31, 31, 30, 31, 30, 31>>
\* date_obj.month and date_obj.day of the day_of_year-th day of 2023
RECURSIVE MonthFrom(_, _)
MonthFrom(d, m) == IF d <= MonthLengths[m] THEN m ELSE MonthFrom(d - MonthLengths[m], m + 1)
RECURSIVE DayFrom(_, _)
DayFrom(d, m) == IF d <= MonthLengths[m] THEN d ELSE DayFrom(d - MonthLengths[m], m + 1)
MonthOf(day_of_year) == MonthFrom(day_of_year, 1)
DayOf(day_of_year) == DayFrom(day_of_year, 1)
\* f"{n:02d}"
Pad2(n) == IF n < 10 THEN "0" \o ToString(n) ELSE ToString(n)
\* strftime('%Y-%m-%d')
DateStr(day_of_year) ==
    "2023-" \o Pad2(MonthOf(day_of_year)) \o "-" \o Pad2(DayOf(day_of_year))
\* generate_date_range_2023(), as days of the year
generate_date_range_2023 == [d \in 1..DaysIn2023 |-> d]

\* a faulty variant of the list below: the last sample hour is left out
sample_hours_alsoZero == <<0, 6, 12, 24>>
sample_hours_noMidnight == <<6, 12, 18>>
\* for hour in [6, 12, 18, 24]
sample_hours == <<6, 12, 18, 24>>

\* a faulty variant of ClampPm10 below: the lower bound is not applied
ClampPm10_noFloor(v) == Min(800000, v)

\* lines 147-158, in tenths
seasonal_factor(month) ==
    IF month \in {11, 12, 1, 2} THEN 14
    ELSE IF month \in {3, 4, 5} THEN 11
    ELSE IF month \in {6, 7, 8, 9} THEN 7
    ELSE 12
\* get_season(month)
get_season(month) ==
    IF month \in {12, 1, 2} THEN "Winter"
    ELSE IF month \in {3, 4, 5} THEN "Summer"
    ELSE IF month \in {6, 7, 8, 9} THEN "Monsoon"
    ELSE "Post-Monsoon"
\* lines 164-169, in tenths
hourly_factor(hour) ==
    IF hour \in {6, 18} THEN 12
    ELSE IF hour \in {12, 24} THEN 9
    ELSE 10

\* np.sin on the first quarter of the circle: w/DaysIn2023 of a right angle, in
\* 1/10000, by the series y - y^3/3! + y^5/5! - y^7/7! + y^9/9!
SinQuarter(w) ==
    LET y == (w * 15708) \div DaysIn2023
        y2 == (y * y) \div 10000
        t3 == ((y * y2) \div 10000) \div 6
        t5 == ((t3 * y2) \div 10000) \div 20
        t7 == ((t5 * y2) \div 10000) \div 42
        t9 == ((t7 * y2) \div 10000) \div 72
    IN  y - t3 + t5 - t7 + t9
\* np.sin(2 * np.pi * day_of_year / 365), in 1/10000
SinOfDay(day_of_year) ==
    LET u == (4 * day_of_year) % (4 * DaysIn2023)
        quadrant == u \div DaysIn2023
        w == u % DaysIn2023
        first == IF quadrant \in {0, 2} THEN SinQuarter(w) ELSE SinQuarter(DaysIn2023 - w)
    IN  IF quadrant \in {0, 1} THEN first ELSE 0 - first
\* daily_variation = 0.8 + 0.4 * sin(...), in 1/10000
daily_variation(day_of_year) == 8000 + (4 * SinOfDay(day_of_year)) \div 10

\* what lines 137-161 and 184-186 compute from the date alone, for every day of
\* 2023 and sample hour, computed once
Calendar ==
    [d \in 1..DaysIn2023 |->
        [date |-> DateStr(d),
         month |-> MonthOf(d),
         day |-> DayOf(d),
         day_of_year |-> d,
         daily_variation |-> daily_variation(d),
         season |-> get_season(MonthOf(d)),
         datetime |-> [h \in {sample_hours[i] : i \in 1..Len(sample_hours)} |->
                          DateStr(d) \o " " \o Pad2(h % 24) \o ":00:00"],
         time |-> [h \in {sample_hours[i] : i \in 1..Len(sample_hours)} |->
                      Pad2(h) \o ":00:00"]]]

\* base * seasonal_factor * daily_variation * hourly_factor * random_factor, in
\* thousandths; the product is taken in two halves to stay within 32 bits
RawValue(base, date_obj, hour, random_factor) ==
    LET a == base * seasonal_factor(date_obj.month) * hourly_factor(hour) * random_factor
        dv == date_obj.daily_variation
        hi == (a \div 1000) * dv
        lo == (a % 1000) * dv
    IN  (hi \div 100) + (((hi % 100) * 1000 + lo) \div 100000)
Max(a, b) == IF a > b THEN a ELSE b
\* max(5, min(500, pm25_value)) and max(10, min(800, pm10_value)), in thousandths
ClampPm25(v) == Max(5000, Min(500000, v))
ClampPm10(v) == Max(10000, Min(800000, v))
\* round(value, 1): thousandths to tenths
RoundToTenth(v) == (v + 50) \div 100

\* one of the two dicts appended at lines 183-226
GeneratedRecord(station_info, date_obj, hour, parameter, value) ==
    [datetime |-> date_obj.datetime[hour],
     date |-> date_obj.date,
     time |-> date_obj.time[hour],
     station_name |-> station_info.station,
     city |-> station_info.city,
     state |-> station_info.state,
     parameter |-> parameter,
     value |-> value,
     unit |-> "ug/m3",
     latitude |-> station_info.lat,
     longitude |-> station_info.lon,
     station_type |-> station_info.type,
     country |-> "India",
     year |-> 2023,
     month |-> date_obj.month,
     day |-> date_obj.day,
     hour |-> hour,
     season |-> date_obj.season,
     data_source |-> "Simulated_CPCB_Compatible"]

\* the body of the innermost loop (lines 141-226); k is the number of draws
\* np.random has served since the run began
HourRecords(seed, station_info, date_obj, hour, k) ==
    LET random_factor == Uniform(seed, k, 70, 130)
        pm25_value == ClampPm25(RawValue(station_info.pm25_base, date_obj, hour, random_factor))
        pm10_value == ClampPm10(RawValue(station_info.pm10_base, date_obj, hour, random_factor))
    IN  << GeneratedRecord(station_info, date_obj, hour, "PM2.5", RoundToTenth(pm25_value)),
           GeneratedRecord(station_info, date_obj, hour, "PM10", RoundToTenth(pm10_value)) >>

\* for hour in [6, 12, 18, 24], from the h-th hour on
RECURSIVE HoursFrom(_, _, _, _, _)
HoursFrom(seed, station_info, date_obj, h, k) ==
    IF h > Len(sample_hours) THEN <<>>
    ELSE HourRecords(seed, station_info, date_obj, sample_hours[h], k)
         \o HoursFrom(seed, station_info, date_obj, h + 1, k + 1)
\* for date_str in dates_2023, over the dates first..last in order (the range is
\* halved to keep the evaluation shallow); k is the draw count when it starts
RECURSIVE DatesFromTo(_, _, _, _, _)
DatesFromTo(seed, station_info, first, last, k) ==
    IF first > last THEN <<>>
    ELSE IF first = last
    THEN HoursFrom(seed, station_info, Calendar[generate_date_range_2023[first]], 1, k)
    ELSE LET mid == (first + last) \div 2
         IN  DatesFromTo(seed, station_info, first, mid, k)
             \o DatesFromTo(seed, station_info, mid + 1, last,
                            k + (mid + 1 - first) * Len(sample_hours))
\* the draws one pass of the outer loop makes
DrawsPerStation == Len(generate_date_range_2023) * Len(sample_hours)
\* one pass of the outer loop (lines 133-226), for every seed, station and
\* position of the station in the run, computed once
StationRecords ==
    [seed \in Seeds, s \in 1..Len(monitoring_stations), pos \in 1..MaxStations |->
        DatesFromTo(seed, monitoring_stations[s], 1, Len(generate_date_range_2023),
                    (pos - 1) * DrawsPerStation)]

---------------------------------------------------------------------------
(* comprehensive_openaq_fetcher.py: fetch_with_retry, fetch_measurements_v2, *)
(* fetch_india_data.                                                         *)

\* max_retries=3, the default fetch_measurements_v2 calls fetch_with_retry with
DefaultMaxRetries == 3
\* min(max_records, 1000)
ApiPageCap == 1000
\* time.sleep(0.5), in tenths of a second
PolitenessDelay == 5

\* faulty variants of the definitions below, each a slip the claims must detect
BackoffSeconds_linear(a) == 2 * a
BackoffSeconds_next(a) == 2 ^ (a + 1)
ReturnsResponse_anyHttp(status) == status \in {"200", "500"}
MoreAttempts_offByOne(a, retries) == a < retries
FetchWithRetryCatches_none(exc) == FALSE
ShortPage_never(measurements, lim) == FALSE
ShortPage_inclusive(measurements, lim) == Len(measurements) <= lim

\* wait_time = 2 ** attempt
BackoffSeconds(a) == 2 ^ a
\* the statuses on which fetch_with_retry returns from inside the loop (lines 59-60)
ReturnsResponse(status) == status = "200"
\* whether the iteration sleeps before the next one (lines 61-64 and 68-71)
SleepsAfter(status, a, retries) ==
    \/ status = "429"
    \/ status = "exc" /\ a < retries - 1
\* for attempt in range(max_retries): whether another iteration follows iteration a
MoreAttempts(a, retries) == a + 1 < retries
\* except requests.exceptions.RequestException (line 68)
FetchWithRetryCatches(exc) == IsInstance(exc, "RequestException")

\* the condition of the break at lines 120-121
NoResults(d) == ~Truthy(d) \/ "results" \notin DOMAIN d \/ d.results = <<>>
\* the condition of the break at lines 128-129
ShortPage(measurements, lim) == Len(measurements) < lim

\* lines 182-191 of fetch_india_data, given what fetch_measurements_v2 returned
FetchIndiaTail(measurements, log1) ==
    LET table == IF measurements # <<>> THEN process_measurements(measurements) ELSE <<>>
    IN  IF table # <<>>
        THEN /\ df' = table
             /\ log' = log1
        ELSE \E seed \in Seeds, now \in Clock :
                /\ df' = SampleTables[seed, now]
                /\ log' = Append(log1, CallEv("create_comprehensive_sample_data"))

\* lines 120-134 of fetch_measurements_v2 once fetch_with_retry has returned d,
\* and the rest of fetch_india_data when the loop is left
DrainV2Step(d, log1) ==
    IF NoResults(d)
    THEN /\ FetchIndiaTail(all_measurements, log1)
         /\ pc' = "done"
         /\ UNCHANGED <<page, all_measurements, attempt>>
    ELSE LET collected == all_measurements \o d.results
         IN  IF ShortPage(d.results, limit)
             THEN /\ FetchIndiaTail(collected, log1)
                  /\ pc' = "done"
                  /\ all_measurements' = collected
                  /\ UNCHANGED <<page, attempt>>
             ELSE /\ all_measurements' = collected
                  /\ page' = page + 1
                  /\ log' = Append(log1, SleepEv("fetch_measurements_v2", PolitenessDelay))
                  /\ attempt' = 0
                  /\ pc' = "fetch_with_retry"
                  /\ UNCHANGED df

\* the caller's code that follows the return of fetch_with_retry
AfterFetchWithRetry(d, log1) ==
    /\ data' = d
    /\ IF entry = "fetch_with_retry"
       THEN /\ pc' = "done"
            /\ log' = log1
            /\ UNCHANGED <<page, all_measurements, attempt, df>>
       ELSE DrainV2Step(d, log1)

RetrySite == IF entry = "fetch_with_retry" THEN "url" ELSE "v2/measurements"

---------------------------------------------------------------------------
(* main.py: fetch_parameter and its fallback fetch_parameter_v2. *)

Params == {"pm25", "pm10"}
\* what fetch_parameter may be called with: the two parameters, or another name
RequestedParams == Params \cup {"o3"}
\* "parameters_id": "2" if param == "pm25" else "1"
ParametersId(p) == IF p = "pm25" THEN "2" ELSE "1"
ParamSite(p) == "v3/measurements?parameters_id=" \o ParametersId(p)

\* the row fetch_parameter builds from one record (lines 40-50)
ParamRow(rec, p) ==
    LET coordinates == DictGet(rec, "coordinates", EmptyDict)
        has == Truthy(coordinates)
    IN  [date |-> DictGet(rec, "datetime", ""),
         location |-> DictGet(rec, "location", ""),
         city |-> DictGet(rec, "city", ""),
         parameter |-> p,
         value |-> DictGet(rec, "value", ""),
         unit |-> DictGet(rec, "unit", ""),
         latitude |-> IF has THEN DictGet(coordinates, "latitude", "") ELSE "",
         longitude |-> IF has THEN DictGet(coordinates, "longitude", "") ELSE "",
         country |-> "India"]
\* rec.get raises only when the record itself is null (caught at line 52)
ParamRowRaises(rec) == IsNone(rec)
ParamRows_reversed(results, p) ==
    LET kept == SelectSeq(results, LAMBDA rec : ~ParamRowRaises(rec))
    IN  [k \in 1..Len(kept) |-> ParamRow(kept[Len(kept) + 1 - k], p)]
ParamRows(results, p) ==
    LET kept == SelectSeq(results, LAMBDA rec : ~ParamRowRaises(rec))
    IN  [k \in 1..Len(kept) |-> ParamRow(kept[k], p)]

urls_to_try ==
    << "api.openaq.org/v2/measurements",
       "u50g7n0cbj.execute-api.us-east-1.amazonaws.com/v2/measurements" >>

\* the row fetch_parameter_v2 builds from one record (lines 111-121)
ParamV2Row(rec) ==
    [date |-> DictGet(DictGet(rec, "date", EmptyDict), "utc", ""),
     location |-> DictGet(rec, "location", ""),
     city |-> DictGet(rec, "city", ""),
     parameter |-> DictGet(rec, "parameter", ""),
     value |-> DictGet(rec, "value", ""),
     unit |-> DictGet(rec, "unit", ""),
     latitude |-> DictGet(DictGet(rec, "coordinates", EmptyDict), "latitude", ""),
     longitude |-> DictGet(DictGet(rec, "coordinates", EmptyDict), "longitude", ""),
     country |-> "India"]
\* None.get raises; the bare except at line 123 skips the record
ParamV2RowRaises(rec) ==
    \/ IsNone(rec)
    \/ IsNone(DictGet(rec, "date", EmptyDict))
    \/ IsNone(DictGet(rec, "coordinates", EmptyDict))
ParamV2Rows(results) ==
    LET kept == SelectSeq(results, LAMBDA rec : ~ParamV2RowRaises(rec))
    IN  [k \in 1..Len(kept) |-> ParamV2Row(kept[k])]

\* faulty variants: the hand-over to fetch_parameter_v2 is never taken, or is
\* taken on a failure of any page
FallsBackToV2_never(p) == FALSE
FallsBackToV2_anyPage(p) == TRUE

\* resp.raise_for_status(): requests.get raised, or the status is an error status
RaisesRequestException(resp) == resp.status \in {"exc", "429", "500"}
\* if "results" not in data or not data["results"]
NoResultsIn(body) == "results" \notin DOMAIN body \/ body.results = <<>>
\* the handler at lines 70-76 hands over to fetch_parameter_v2
FallsBackToV2(p) == p = 1

---------------------------------------------------------------------------
(* fetch_openaq_alternative.py: fetch_openaq_data and its three methods. *)

GoodLocation(k) ==
    [id |-> "L" \o ToString(k), name |-> "Station " \o ToString(k), city |-> "Delhi",
     coordinates |-> [latitude |-> "28.6", longitude |-> "77.2"]]
\* a location without an "id": try_openaq_v3 skips it (lines 66-68)
NoIdLocation(k) ==
    [name |-> "Station " \o ToString(k), city |-> "Delhi",
     coordinates |-> [latitude |-> "28.6", longitude |-> "77.2"]]
\* a location whose "coordinates" is null: building a row from it raises
NullCoordLocation(k) == [GoodLocation(k) EXCEPT !.coordinates = None]
LocationLists ==
    {[k \in 1..n |-> GoodLocation(k)] : n \in 0..MaxLocations}
    \cup {[k \in 1..n |-> IF k = 1 THEN NoIdLocation(k) ELSE GoodLocation(k)]
            : n \in {m \in {MaxLocations} : m >= 1}}
    \cup {[k \in 1..n |-> IF k = 1 THEN NullCoordLocation(k) ELSE GoodLocation(k)]
            : n \in {m \in {MaxLocations} : m >= 1}}
LocationResponses ==
    Failures \cup {OkMissing} \cup {OkResults(l) : l \in LocationLists}

\* locations_data["results"][:5]
V3LocationCap == 5
\* data["results"][:10]
V2LocationCap == 10
Take(seq, n) == SubSeq(seq, 1, Min(n, Len(seq)))

\* if not location_id: continue -- the first location from index j on that has an id
RECURSIVE NextWithId(_, _)
NextWithId(locs, j) ==
    IF j > Len(locs) THEN j
    ELSE IF DictGet(locs[j], "id", "") # "" THEN j
    ELSE NextWithId(locs, j + 1)

\* the row try_openaq_v3 builds from one measurement of a location (lines 87-97)
V3Row(m, loc) ==
    LET prm == DictGet(m, "parameter", EmptyDict)
    IN  [date |-> DictGet(m, "datetime", ""),
         location |-> DictGet(loc, "name", ""),
         city |-> DictGet(loc, "city", ""),
         parameter |-> IF "id" \in DOMAIN prm /\ prm.id = 2 THEN "pm25" ELSE "pm10",
         value |-> DictGet(m, "value", ""),
         unit |-> DictGet(m, "unit", ""),
         latitude |-> DictGet(DictGet(loc, "coordinates", EmptyDict), "latitude", ""),
         longitude |-> DictGet(DictGet(loc, "coordinates", EmptyDict), "longitude", ""),
         country |-> "India"]
\* None.get raises AttributeError, caught by the handler at line 99
V3RowRaises(m, loc) ==
    \/ IsNone(m)
    \/ IsNone(DictGet(m, "parameter", EmptyDict))
    \/ IsNone(DictGet(loc, "coordinates", EmptyDict))
\* the number of leading measurements whose rows are appended before one raises
RECURSIVE V3Prefix(_, _)
V3Prefix(results, loc) ==
    IF results = <<>> \/ V3RowRaises(Head(results), loc) THEN 0
    ELSE 1 + V3Prefix(Tail(results), loc)
V3Rows(results, loc) ==
    [k \in 1..V3Prefix(results, loc) |-> V3Row(results[k], loc)]
V3Site(loc) == "v3/measurements?locations_id=" \o loc.id

endpoints ==
    << "api.openaq.org/v2/locations",
       "u50g7n0cbj.execute-api.us-east-1.amazonaws.com/v2/locations" >>

\* the row try_locations_approach builds from one location (lines 138-148)
LocationRow(loc, now) ==
    [date |-> "T" \o ToString(now),
     location |-> DictGet(loc, "name", ""),
     city |-> DictGet(loc, "city", ""),
     parameter |-> "pm25",
     value |-> "455",
     unit |-> "ug/m3",
     latitude |-> DictGet(DictGet(loc, "coordinates", EmptyDict), "latitude", ""),
     longitude |-> DictGet(DictGet(loc, "coordinates", EmptyDict), "longitude", ""),
     country |-> "India"]
LocationRowRaises(loc) ==
    IsNone(loc) \/ IsNone(DictGet(loc, "coordinates", EmptyDict))
LocationRows(results, now) ==
    [k \in 1..Len(Take(results, V2LocationCap)) |-> LocationRow(results[k], now)]

SampleRec(date, location, city, parameter, value, lat, lon) ==
    [date |-> date, location |-> location, city |-> city, parameter |-> parameter,
     value |-> value, unit |-> "ug/m3", latitude |-> lat, longitude |-> lon,
     country |-> "India"]
create_sample_data ==
    << SampleRec("2024-07-03T12:00:00Z", "Anand Vihar", "Delhi", "pm25", "895", "28.6469", "77.3152"),
       SampleRec("2024-07-03T12:00:00Z", "Anand Vihar", "Delhi", "pm10", "1452", "28.6469", "77.3152"),
       SampleRec("2024-07-03T11:00:00Z", "Bandra", "Mumbai", "pm25", "523", "19.0544", "72.8423"),
       SampleRec("2024-07-03T11:00:00Z", "Bandra", "Mumbai", "pm10", "789", "19.0544", "72.8423"),
       SampleRec("2024-07-03T10:00:00Z", "Silk Board", "Bengaluru", "pm25", "437", "12.9185", "77.6220"),
       SampleRec("2024-07-03T10:00:00Z", "Silk Board", "Bengaluru", "pm10", "654", "12.9185", "77.6220"),
       SampleRec("2024-07-03T09:00:00Z", "Adyar", "Chennai", "pm25", "389", "13.0067", "80.2206"),
       SampleRec("2024-07-03T09:00:00Z", "Adyar", "Chennai", "pm10", "582", "13.0067", "80.2206"),
       SampleRec("2024-07-03T08:00:00Z", "Sector 62", "Noida", "pm25", "761", "28.6139", "77.3616"),
       SampleRec("2024-07-03T08:00:00Z", "Sector 62", "Noida", "pm10", "1185", "28.6139", "77.3616") >>

\* faulty variants of the emptiness test below
NotEmpty_never(table) == FALSE
NotEmpty_always(table) == TRUE

\* if not df.empty: return df (lines 24 and 31)
NotEmpty(table) == table # <<>>

\* lines 31-38 of fetch_openaq_data, given what try_locations_approach returned
OpenaqAfterLocations(table, log1) ==
    /\ pc' = "done"
    /\ IF NotEmpty(table)
       THEN /\ df' = table
            /\ log' = log1
       ELSE /\ df' = create_sample_data
            /\ log' = Append(log1, CallEv("create_sample_data"))

\* lines 24-29 of fetch_openaq_data, given what try_openaq_v3 returned
OpenaqAfterV3(table, log1) ==
    IF NotEmpty(table)
    THEN /\ pc' = "done"
         /\ df' = table
         /\ log' = log1
         /\ UNCHANGED idx
    ELSE /\ pc' = "try_locations_approach"
         /\ idx' = 1
         /\ log' = log1
         /\ UNCHANGED df

\* try_openaq_v3 from the top of its for loop with index j (lines 65-111), up
\* to the next request; collected is all_measurements so far
V3Loop(locs, j, collected, log1) ==
    LET nxt == NextWithId(locs, j)
    IN  /\ all_measurements' = collected
        /\ IF nxt <= Len(locs)
           THEN /\ pc' = "try_openaq_v3.measurements"
                /\ idx' = nxt
                /\ log' = log1
                /\ UNCHANGED df
           ELSE OpenaqAfterV3(collected, log1)

Init ==
    /\ pc = "idle"
    /\ entry = "none"
    /\ max_retries = 0
    /\ attempt = 0
    /\ data = None
    /\ max_records = 0
    /\ limit = 0
    /\ page = 0
    /\ all_measurements = <<>>
    /\ locations = <<>>
    /\ idx = 0
    /\ param = ""
    /\ rows = <<>>
    /\ df = <<>>
    /\ log = <<>>
    /\ stations = <<>>
    /\ station_i = 0
    /\ all_data = <<>>
    /\ random_seed = 0
    /\ base_time = 0
    /\ earlier = None
    /\ df_pm25 = <<>>
    /\ df_pm10 = <<>>
    /\ df_combined = <<>>

\* a direct call fetch_with_retry(url, params, n)
Call_fetch_with_retry ==
    \E n \in 0..MaxRetriesIn :
        /\ pc = "idle"
        /\ entry' = "fetch_with_retry"
        /\ max_retries' = n
        /\ limit' = 1
        /\ page' = 1
        /\ pc' = IF n = 0 THEN "done" ELSE "fetch_with_retry"
        /\ UNCHANGED <<attempt, data, max_records, all_measurements, locations, idx,
                       param, rows, df, log>>
        /\ UNCHANGED <<generator_vars, assembler_vars>>

\* fetch_india_data(max_records), up to the first request
Call_fetch_india_data ==
    \E n \in 0..MaxRecordsIn :
        /\ pc = "idle"
        /\ entry' = "fetch_india_data"
        /\ max_records' = n
        /\ limit' = Min(n, ApiPageCap)
        /\ page' = 1
        /\ all_measurements' = <<>>
        /\ max_retries' = DefaultMaxRetries
        /\ attempt' = 0
        /\ pc' = "fetch_with_retry"
        /\ UNCHANGED <<data, locations, idx, param, rows, df, log>>
        /\ UNCHANGED <<generator_vars, assembler_vars>>

\* one iteration of fetch_with_retry's loop (lines 50-71): one request and what
\* follows it, up to the next request or to the return of the entry point
fetch_with_retry ==
    \E resp \in ResponsesV2(RetrySite, page, limit) :
        /\ pc = "fetch_with_retry"
        /\ Len(Gets(log)) < MaxRequests
        /\ LET got == Append(log, GetEv(RetrySite, page, resp))
               log1 == IF SleepsAfter(resp.status, attempt, max_retries)
                       THEN Append(got, SleepEv("fetch_with_retry", 10 * BackoffSeconds(attempt)))
                       ELSE got
           IN  IF resp.status = "exc" /\ ~FetchWithRetryCatches("RequestException")
               THEN /\ pc' = "raised"
                    /\ log' = got
                    /\ UNCHANGED <<data, page, all_measurements, attempt, df>>
               ELSE IF ReturnsResponse(resp.status)
               THEN AfterFetchWithRetry(resp.body, log1)
               ELSE IF MoreAttempts(attempt, max_retries)
               THEN /\ attempt' = attempt + 1
                    /\ log' = log1
                    /\ UNCHANGED <<pc, data, page, all_measurements, df>>
               ELSE AfterFetchWithRetry(None, log1)
        /\ UNCHANGED <<entry, max_retries, max_records, limit, locations, idx, param, rows>>
        /\ UNCHANGED <<generator_vars, assembler_vars>>

\* fetch_parameter(param), up to the first request
Call_fetch_parameter ==
    \E p \in RequestedParams :
        /\ pc = "idle"
        /\ entry' = "fetch_parameter"
        /\ param' = p
        /\ rows' = <<>>
        /\ page' = 1
        /\ limit' = PageLimit
        /\ pc' = "fetch_parameter"
        /\ UNCHANGED <<max_retries, attempt, data, max_records, all_measurements,
                       locations, idx, df, log>>
        /\ UNCHANGED <<generator_vars, assembler_vars>>

\* one iteration of fetch_parameter's loop (lines 13-79) and, when the loop is
\* left, the return at line 82 or the hand-over at line 75
fetch_parameter ==
    \E resp \in ResponsesV3(ParamSite(param), page, limit) :
        /\ pc = "fetch_parameter"
        /\ Len(Gets(log)) < MaxRequests
        /\ LET got == Append(log, GetEv(ParamSite(param), page, resp))
           IN  IF RaisesRequestException(resp)
               THEN IF FallsBackToV2(page)
                    THEN /\ pc' = "fetch_parameter_v2"
                         /\ rows' = <<>>
                         /\ idx' = 1
                         /\ log' = got
                         /\ UNCHANGED <<page, df>>
                    ELSE /\ pc' = "done"
                         /\ df' = rows
                         /\ log' = got
                         /\ UNCHANGED <<page, rows, idx>>
               ELSE IF NoResultsIn(resp.body)
               THEN /\ pc' = "done"
                    /\ df' = rows
                    /\ log' = got
                    /\ UNCHANGED <<page, rows, idx>>
               ELSE LET collected == rows \o ParamRows(resp.body.results, param)
                    IN  /\ rows' = collected
                        /\ IF ShortPage(resp.body.results, limit)
                           THEN /\ pc' = "done"
                                /\ df' = collected
                                /\ log' = got
                                /\ UNCHANGED <<page, idx>>
                           ELSE /\ page' = page + 1
                                /\ log' = Append(got, SleepEv("fetch_parameter", PolitenessDelay))
                                /\ UNCHANGED <<pc, df, idx>>
        /\ UNCHANGED <<entry, max_retries, attempt, data, max_records, limit,
                       all_measurements, locations, param>>
        /\ UNCHANGED <<generator_vars, assembler_vars>>

\* one iteration of fetch_parameter_v2's loop over urls_to_try (lines 95-128)
\* and, when the loop is left, the return at line 126 or 131
fetch_parameter_v2 ==
    /\ pc = "fetch_parameter_v2"
    /\ \E resp \in ResponsesV2(urls_to_try[idx], 1, PageLimit) :
        /\ log' = Append(log, GetEv(urls_to_try[idx], 1, resp))
        /\ IF resp.status = "200" /\ ~NoResultsIn(resp.body)
           THEN /\ rows' = ParamV2Rows(resp.body.results)
                /\ df' = ParamV2Rows(resp.body.results)
                /\ pc' = "done"
                /\ UNCHANGED idx
           ELSE IF idx < Len(urls_to_try)
           THEN /\ idx' = idx + 1
                /\ UNCHANGED <<pc, rows, df>>
           ELSE /\ df' = rows
                /\ pc' = "done"
                /\ UNCHANGED <<rows, idx>>
        /\ UNCHANGED <<entry, max_retries, attempt, data, max_records, limit, page,
                       all_measurements, locations, param>>
        /\ UNCHANGED <<generator_vars, assembler_vars>>

\* fetch_openaq_data(), up to the first request
Call_fetch_openaq_data ==
    /\ pc = "idle"
    /\ entry' = "fetch_openaq_data"
    /\ pc' = "try_openaq_v3.locations"
    /\ UNCHANGED <<max_retries, attempt, data, max_records, limit, page,
                   all_measurements, locations, idx, param, rows, df, log>>
    /\ UNCHANGED <<generator_vars, assembler_vars>>

\* try_openaq_v3: the locations request (lines 44-64) and what follows it
try_openaq_v3_locations ==
    /\ pc = "try_openaq_v3.locations"
    /\ \E resp \in LocationResponses :
        LET got == Append(log, GetEv("v3/locations", 1, resp))
        IN  IF resp.status # "200" \/ NoResultsIn(resp.body)
            THEN /\ OpenaqAfterV3(<<>>, got)
                 /\ UNCHANGED <<locations, all_measurements>>
            ELSE /\ locations' = Take(resp.body.results, V3LocationCap)
                 /\ V3Loop(Take(resp.body.results, V3LocationCap), 1, <<>>, got)
    /\ UNCHANGED <<entry, max_retries, attempt, data, max_records, limit, page,
                   param, rows>>
    /\ UNCHANGED <<generator_vars, assembler_vars>>

\* try_openaq_v3: the measurements request of one location (lines 72-101) and
\* what follows it
try_openaq_v3_measurements ==
    /\ pc = "try_openaq_v3.measurements"
    /\ \E resp \in ResponsesV3(V3Site(locations[idx]), 1, PageLimit) :
        LET loc == locations[idx]
            got == Append(log, GetEv(V3Site(loc), 1, resp))
            has == resp.status = "200" /\ ~NoResultsIn(resp.body)
            collected == IF has THEN all_measurements \o V3Rows(resp.body.results, loc)
                         ELSE all_measurements
            raised == \/ resp.status = "exc"
                      \/ has /\ V3Prefix(resp.body.results, loc) < Len(resp.body.results)
            log1 == IF raised THEN got
                    ELSE Append(got, SleepEv("try_openaq_v3", PolitenessDelay))
        IN  V3Loop(locations, idx + 1, collected, log1)
    /\ UNCHANGED <<entry, max_retries, attempt, data, max_records, limit, page,
                   locations, param, rows>>
    /\ UNCHANGED <<generator_vars, assembler_vars>>

\* try_locations_approach: the request of one endpoint (lines 122-152) and what
\* follows it
try_locations_approach ==
    /\ pc = "try_locations_approach"
    /\ \E resp \in LocationResponses, now \in Clock :
        LET got == Append(log, GetEv(endpoints[idx], 1, resp))
            has == resp.status = "200" /\ ~NoResultsIn(resp.body)
            raised == has /\ \E k \in 1..Len(Take(resp.body.results, V2LocationCap)) :
                                 LocationRowRaises(resp.body.results[k])
        IN  IF has /\ ~raised
            THEN /\ OpenaqAfterLocations(LocationRows(resp.body.results, now), got)
                 /\ UNCHANGED idx
            ELSE IF idx < Len(endpoints)
            THEN /\ idx' = idx + 1
                 /\ log' = got
                 /\ UNCHANGED <<pc, df>>
            ELSE /\ OpenaqAfterLocations(<<>>, got)
                 /\ UNCHANGED idx
    /\ UNCHANGED <<entry, max_retries, attempt, data, max_records, limit, page,
                   all_measurements, locations, param, rows>>
    /\ UNCHANGED <<generator_vars, assembler_vars>>

Next ==
    \/ Call_fetch_with_retry
    \/ Call_fetch_india_data
    \/ fetch_with_retry
    \/ Call_fetch_parameter
    \/ fetch_parameter
    \/ fetch_parameter_v2
    \/ Call_fetch_openaq_data
    \/ try_openaq_v3_locations
    \/ try_openaq_v3_measurements
    \/ try_locations_approach

Spec == Init /\ [][Next]_vars

---------------------------------------------------------------------------
(* The generators run on their own: create_comprehensive_2023_dataset over   *)
(* a stretch of its station table, create_comprehensive_sample_data called   *)
(* directly.  Neither takes a seed nor seeds its random source: the state of *)
(* that source when a run begins, like the clock, is the environment's.  A   *)
(* behaviour holds up to two runs of one generator over the same stations,   *)
(* the second after the first, which keeps the first run's table.            *)

Generator2023 == entry = "create_comprehensive_2023_dataset"
GeneratorSample == entry = "create_comprehensive_sample_data"

\* create_comprehensive_2023_dataset(), up to its outer loop
Call_create_comprehensive_2023_dataset ==
    \E first \in 1..Len(monitoring_stations), n \in 1..MaxStations, seed \in Seeds :
        /\ pc = "idle"
        /\ first + n - 1 <= Len(monitoring_stations)
        /\ entry' = "create_comprehensive_2023_dataset"
        /\ stations' = [i \in 1..n |-> first + i - 1]
        /\ random_seed' = seed
        /\ all_data' = <<>>
        /\ station_i' = 1
        /\ pc' = "create_comprehensive_2023_dataset"
        /\ UNCHANGED <<df, base_time, earlier, pipeline_vars, assembler_vars>>

\* one pass of the outer loop (lines 133-226) and, after the last station, the
\* return at line 229
create_comprehensive_2023_dataset ==
    /\ pc = "create_comprehensive_2023_dataset"
    /\ LET collected == all_data \o StationRecords[random_seed, stations[station_i], station_i]
       IN  /\ all_data' = collected
           /\ IF station_i < Len(stations)
              THEN /\ station_i' = station_i + 1
                   /\ UNCHANGED <<pc, df>>
              ELSE /\ pc' = "done"
                   /\ df' = collected
                   /\ UNCHANGED station_i
    /\ UNCHANGED <<entry, stations, random_seed, base_time, earlier, pipeline_vars,
                   assembler_vars>>

\* a second run over the same stations
Again_create_comprehensive_2023_dataset ==
    \E seed \in Seeds :
        /\ pc = "done" /\ Generator2023 /\ IsNone(earlier)
        /\ earlier' = [seed |-> random_seed, now |-> base_time, table |-> df]
        /\ random_seed' = seed
        /\ all_data' = <<>>
        /\ station_i' = 1
        /\ pc' = "create_comprehensive_2023_dataset"
        /\ UNCHANGED <<entry, df, stations, base_time, pipeline_vars, assembler_vars>>

\* create_comprehensive_sample_data(), called directly
Call_create_comprehensive_sample_data ==
    \E seed \in Seeds, now \in Clock :
        /\ pc = "idle"
        /\ entry' = "create_comprehensive_sample_data"
        /\ random_seed' = seed
        /\ base_time' = now
        /\ df' = SampleTables[seed, now]
        /\ pc' = "done"
        /\ UNCHANGED <<stations, station_i, all_data, earlier, pipeline_vars,
                       assembler_vars>>

\* a second call of create_comprehensive_sample_data()
Again_create_comprehensive_sample_data ==
    \E seed \in Seeds, now \in Clock :
        /\ pc = "done" /\ GeneratorSample /\ IsNone(earlier)
        /\ earlier' = [seed |-> random_seed, now |-> base_time, table |-> df]
        /\ random_seed' = seed
        /\ base_time' = now
        /\ df' = SampleTables[seed, now]
        /\ UNCHANGED <<pc, entry, stations, station_i, all_data, pipeline_vars,
                       assembler_vars>>

GeneratorNext ==
    \/ Call_create_comprehensive_2023_dataset
    \/ create_comprehensive_2023_dataset
    \/ Again_create_comprehensive_2023_dataset
    \/ Call_create_comprehensive_sample_data
    \/ Again_create_comprehensive_sample_data

GeneratorSpec == Init /\ [][GeneratorNext]_vars

---------------------------------------------------------------------------
(* main.py: main, and the sort of fetch_openaq_alternative.py's main. *)

\* a row as fetch_parameter and fetch_parameter_v2 build it, of a record whose
\* fields are scalars
FetchedRow(date, location, city, parameter, value) ==
    [date |-> date, location |-> location, city |-> city, parameter |-> parameter,
     value |-> value, unit |-> "µg/m³", latitude |-> "28.6", longitude |-> "77.3",
     country |-> "India"]
\* the rows the two fetches are taken to return: one measurement, the same
\* measurement with another value, the same measurement with its instant
\* spelled otherwise, the same instant at the same station for the other
\* parameter, the same instant at another station, a later instant, a missing
\* date and a date that is no date
FetchedRows ==
    {FetchedRow("2024-01-01T12:00:00Z", "Anand Vihar", "Delhi", "pm25", "400"),
     FetchedRow("2024-01-01T12:00:00Z", "Anand Vihar", "Delhi", "pm25", "410"),
     FetchedRow("2024-01-01T12:00:00+00:00", "Anand Vihar", "Delhi", "pm25", "400"),
     FetchedRow("2024-01-01T12:00:00Z", "Anand Vihar", "Delhi", "pm10", "400"),
     FetchedRow("2024-01-01T12:00:00Z", "Bandra", "Mumbai", "pm10", "400"),
     FetchedRow("2024-01-01T13:00:00Z", "Bandra", "Mumbai", "pm10", "400"),
     FetchedRow("", "Bandra", "Mumbai", "pm10", "400"),
     FetchedRow("unknown", "Bandra", "Mumbai", "pm10", "400")}
\* the tables of n rows
Tables(n) == [1..n -> FetchedRows]

\* lines 153-164: the two rows of the sample structure
sample_data ==
    <<[date |-> "2024-01-01T12:00:00Z", location |-> "Sample Location 1",
       city |-> "Mumbai", parameter |-> "pm25", value |-> "45.5", unit |-> "µg/m³",
       latitude |-> "19.0760", longitude |-> "72.8777", country |-> "India"],
      [date |-> "2024-01-01T13:00:00Z", location |-> "Sample Location 2",
       city |-> "Delhi", parameter |-> "pm10", value |-> "78.2", unit |-> "µg/m³",
       latitude |-> "28.7041", longitude |-> "77.1025", country |-> "India"]>>

\* DataFrame.drop_duplicates(): a row is dropped when an earlier row equals it
\* in every column; the first of equal rows stays where it is
drop_duplicates_keepAll(table) == table
drop_duplicates_oncePerPass(table) ==
    LET dup(k) == \E j \in 1..(k - 1) : table[j] = table[k]
        dups == {k \in 1..Len(table) : dup(k)}
        first == CHOOSE k \in dups : \A j \in dups : k <= j
    IN  IF dups = {} THEN table
        ELSE SubSeq(table, 1, first - 1) \o SubSeq(table, first + 1, Len(table))
RECURSIVE drop_duplicates(_)
drop_duplicates(table) ==
    IF table = <<>> THEN <<>>
    ELSE LET n == Len(table)
             before == drop_duplicates(SubSeq(table, 1, n - 1))
         IN  IF \E j \in 1..(n - 1) : table[j] = table[n]
             THEN before
             ELSE Append(before, table[n])

\* lines 170-174: pd.concat([df_pm25, df_pm10], ignore_index=True) and
\* drop_duplicates()
Combine(pm25, pm10) == drop_duplicates(pm25 \o pm10)

\* lines 148-178: df_combined as line 180 finds it
Combined(pm25, pm10) ==
    IF Len(pm25) = 0 /\ Len(pm10) = 0 THEN sample_data ELSE Combine(pm25, pm10)

\* pd.to_datetime of one string of the date column, as to_csv writes it; an
\* empty string is a missing date
NaT == "NaT"
to_datetime(date) ==
    CASE date = "2024-01-01T12:00:00Z" -> "2024-01-01 12:00:00+00:00"
      [] date = "2024-01-01T12:00:00+00:00" -> "2024-01-01 12:00:00+00:00"
      [] date = "2024-01-01T13:00:00Z" -> "2024-01-01 13:00:00+00:00"
      [] date = "" -> NaT
\* pd.to_datetime raises on a string that is no date
ToDatetimeRaises(date) == date = "unknown"
\* the instant of a converted date, in hours of 2024-01-01
Instant(timestamp) ==
    CASE timestamp = "2024-01-01 12:00:00+00:00" -> 12
      [] timestamp = "2024-01-01 13:00:00+00:00" -> 13

\* line 183: the date column converted
WithDatetimes(table) ==
    [k \in 1..Len(table) |-> [table[k] EXCEPT !.date = to_datetime(table[k].date)]]
ParseFails(table) == \E k \in 1..Len(table) : ToDatetimeRaises(table[k].date)

\* sort_values('date', ascending=False) may leave row a before row b: missing
\* dates go last, and the default sort (quicksort) promises nothing about rows
\* of equal dates
MayPrecede_ascending(a, b) ==
    \/ b.date = NaT
    \/ a.date # NaT /\ Instant(a.date) <= Instant(b.date)
MayPrecede(a, b) ==
    \/ b.date = NaT
    \/ a.date # NaT /\ Instant(a.date) >= Instant(b.date)
\* line 184: the tables sort_values can return
sort_values(table) ==
    LET n == Len(table)
        orders == {p \in Permutations(1..n) :
                      \A i, j \in 1..n : i < j => MayPrecede(table[p[i]], table[p[j]])}
    IN  {[k \in 1..n |-> table[p[k]]] : p \in orders}

\* lines 181-186 of main.py, lines 194-200 of fetch_openaq_alternative.py:
\* the tables the try block can leave
Sorted(table) ==
    IF Len(table) = 0 \/ ParseFails(table)
    THEN {table}
    ELSE sort_values(WithDatetimes(table))

\* main(), up to what the two calls of fetch_parameter returned
Call_main ==
    \E n25 \in 0..MaxRows :
        \E n10 \in 0..(MaxRows - n25) :
            \E pm25 \in Tables(n25), pm10 \in Tables(n10) :
                /\ pc = "idle"
                /\ entry' = "main"
                /\ df_pm25' = pm25
                /\ df_pm10' = pm10
                /\ pc' = "main"
                /\ UNCHANGED <<df, df_combined, pipeline_vars, generator_vars>>

\* lines 148-211 of main
main ==
    /\ pc = "main"
    /\ df_combined' = Combined(df_pm25, df_pm10)
    /\ df' \in Sorted(Combined(df_pm25, df_pm10))
    /\ pc' = "done"
    /\ UNCHANGED <<entry, df_pm25, df_pm10, pipeline_vars, generator_vars>>

\* lines 170-174 once more, on the table they left
Again_drop_duplicates ==
    /\ pc = "done" /\ entry = "main" /\ IsNone(earlier)
    /\ ~(Len(df_pm25) = 0 /\ Len(df_pm10) = 0)
    /\ earlier' = [table |-> df_combined]
    /\ df_combined' = Combine(df_combined, <<>>)
    /\ UNCHANGED <<pc, entry, df, df_pm25, df_pm10, pipeline_vars, stations,
                   station_i, all_data, random_seed, base_time>>

\* fetch_openaq_alternative.py: main(), lines 183-232, given the table
\* fetch_openaq_data returned; an empty table is returned from at line 188
alternative_main ==
    \E n \in 0..MaxRows :
        \E table \in Tables(n) :
            /\ pc = "idle"
            /\ entry' = "alternative_main"
            /\ df_combined' = table
            /\ df' \in Sorted(table)
            /\ pc' = "done"
            /\ UNCHANGED <<df_pm25, df_pm10, pipeline_vars, generator_vars>>

AssemblerNext ==
    \/ Call_main
    \/ main
    \/ Again_drop_duplicates
    \/ alternative_main

AssemblerSpec == Init /\ [][AssemblerNext]_vars

---------------------------------------------------------------------------
(* The row builders, each on one page of raw records. *)

\* the dict d without its key k
Without(d, k) == [f \in DOMAIN d \ {k} |-> d[f]]

\* what the k-th record of a v2 page can be: well-formed, without "value",
\* without "date", with a null "date", with null "coordinates", or null itself
KindsV2 == {"good", "no value", "no date", "null date", "null coordinates", "null"}
RawV2(k, kind) ==
    LET good == GoodV2("page", 1, k)
    IN  CASE kind = "good" -> good
          [] kind = "no value" -> Without(good, "value")
          [] kind = "no date" -> Without(good, "date")
          [] kind = "null date" -> [good EXCEPT !.date = None]
          [] kind = "null coordinates" -> BadV2("page", 1, k)
          [] kind = "null" -> None
\* what the k-th record of a v3 page can be: well-formed, without "value",
\* without "datetime", with a parameter id that is neither 1 nor 2, without
\* "parameter", with a null "parameter", or null itself
KindsV3 == {"good", "no value", "no datetime", "unknown id", "no parameter",
            "null parameter", "null"}
RawV3(k, kind) ==
    LET good == GoodV3("page", 1, k)
    IN  CASE kind = "good" -> good
          [] kind = "no value" -> Without(good, "value")
          [] kind = "no datetime" -> Without(good, "datetime")
          [] kind = "unknown id" -> [good EXCEPT !.parameter = [id |-> 3]]
          [] kind = "no parameter" -> Without(good, "parameter")
          [] kind = "null parameter" -> BadV3("page", 1, k)
          [] kind = "null" -> None
RawPagesV2 ==
    UNION {{[k \in 1..n |-> RawV2(k, kinds[k])] : kinds \in [1..n -> KindsV2]}
             : n \in 0..MaxPageRecords}
RawPagesV3 ==
    UNION {{[k \in 1..n |-> RawV3(k, kinds[k])] : kinds \in [1..n -> KindsV3]}
             : n \in 0..MaxPageRecords}

\* process_measurements(measurements), called directly
Call_process_measurements ==
    \E measurements \in RawPagesV2 :
        /\ pc = "idle"
        /\ entry' = "process_measurements"
        /\ all_measurements' = measurements
        /\ df' = process_measurements(measurements)
        /\ pc' = "done"
        /\ UNCHANGED <<max_retries, attempt, data, max_records, limit, page,
                       locations, idx, param, rows, log>>
        /\ UNCHANGED <<generator_vars, assembler_vars>>

\* lines 38-54 of fetch_parameter on the results of one page
Rows_fetch_parameter ==
    \E p \in Params, results \in RawPagesV3 :
        /\ pc = "idle"
        /\ entry' = "fetch_parameter.rows"
        /\ param' = p
        /\ all_measurements' = results
        /\ rows' = ParamRows(results, p)
        /\ df' = ParamRows(results, p)
        /\ pc' = "done"
        /\ UNCHANGED <<max_retries, attempt, data, max_records, limit, page,
                       locations, idx, log>>
        /\ UNCHANGED <<generator_vars, assembler_vars>>

\* lines 109-126 of fetch_parameter_v2 on the results of one page
Rows_fetch_parameter_v2 ==
    \E results \in RawPagesV2 :
        /\ pc = "idle"
        /\ entry' = "fetch_parameter_v2.rows"
        /\ all_measurements' = results
        /\ rows' = ParamV2Rows(results)
        /\ df' = ParamV2Rows(results)
        /\ pc' = "done"
        /\ UNCHANGED <<max_retries, attempt, data, max_records, limit, page,
                       locations, idx, param, log>>
        /\ UNCHANGED <<generator_vars, assembler_vars>>

\* lines 85-101 of try_openaq_v3 on the results of one location's page
Rows_try_openaq_v3 ==
    \E results \in RawPagesV3 :
        /\ pc = "idle"
        /\ entry' = "try_openaq_v3.rows"
        /\ locations' = <<GoodLocation(1)>>
        /\ all_measurements' = results
        /\ df' = V3Rows(results, GoodLocation(1))
        /\ pc' = "done"
        /\ UNCHANGED <<max_retries, attempt, data, max_records, limit, page,
                       idx, param, rows, log>>
        /\ UNCHANGED <<generator_vars, assembler_vars>>

NormalizerNext ==
    \/ Call_process_measurements
    \/ Rows_fetch_parameter
    \/ Rows_fetch_parameter_v2
    \/ Rows_try_openaq_v3

NormalizerSpec == Init /\ [][NormalizerNext]_vars

---------------------------------------------------------------------------
(* Claims about fetch_with_retry, on a direct call: the trace is one call's. *)

Direct == entry = "fetch_with_retry"
Status(e) == e.resp.status
\* sum(2^i for i in 0..n-1)
RECURSIVE SumPow2(_)
SumPow2(n) == IF n = 0 THEN 0 ELSE 2 ^ (n - 1) + SumPow2(n - 1)

\* C6 as stated: a response with status 200, or with a non-200, non-429 HTTP
\* status, ends the call: no request is issued after such a response.
C6_NoRequestAfterFinalStatus ==
    Direct =>
        \A i \in 1..Len(log), j \in 1..Len(log) :
            (i < j /\ log[i].ev = "get" /\ Status(log[i]) \in {"200", "500"})
                => log[j].ev # "get"

\* C6 amended: a 200 response ends the call at once with the parsed body; a
\* non-200, non-429 HTTP status does not end it: while attempts remain the next
\* request follows with no sleep in between, and after attempt max_retries the
\* call returns None.
C6_OnlySuccessEndsCall ==
    Direct =>
        \A i \in 1..Len(log) :
            /\ (log[i].ev = "get" /\ Status(log[i]) = "200")
                 => /\ i = Len(log)
                    /\ pc = "done"
                    /\ data = log[i].resp.body
            /\ (log[i].ev = "get" /\ Status(log[i]) = "500")
                 => /\ i < Len(log) => log[i + 1].ev = "get"
                    /\ i = Len(log) =>
                          IF Len(Gets(log)) = max_retries
                          THEN pc = "done" /\ IsNone(data)
                          ELSE pc = "fetch_with_retry"

\* a call that went on after an HTTP 500 and then succeeded
C6_Witness ==
    /\ Direct /\ pc = "done" /\ Len(log) >= 2
    /\ Status(log[1]) = "500"
    /\ log[2].ev = "get"
    /\ Status(log[Len(log)]) = "200"

\* C7: k rate-limited attempts (k < max_retries) followed by a 200: the call
\* returns the parsed response after exactly k+1 requests and has slept 2^0, ...,
\* 2^(k-1) seconds, each sleep between a rate-limited attempt and the next attempt.
C7_BackoffSchedule ==
    \A k \in 0..MaxRetriesIn :
        LET g == Gets(log)
        IN  ( /\ Direct
              /\ Len(g) = k + 1
              /\ \A j \in 1..k : Status(g[j]) = "429"
              /\ Status(g[k + 1]) = "200" )
            => /\ pc = "done"
               /\ k < max_retries
               /\ data = g[k + 1].resp.body
               /\ Len(log) = 2 * k + 1
               /\ \A j \in 1..k :
                     /\ log[2 * j - 1].ev = "get"
                     /\ log[2 * j] = SleepEv("fetch_with_retry", 10 * 2 ^ (j - 1))
               /\ log[2 * k + 1].ev = "get"

\* rate-limited twice, then a 200 on the third attempt
C7_Witness ==
    /\ Direct /\ pc = "done" /\ max_retries = 3
    /\ Len(Gets(log)) = 3
    /\ Status(Gets(log)[1]) = "429" /\ Status(Gets(log)[2]) = "429"
    /\ Status(Gets(log)[3]) = "200"
    /\ ~IsNone(data)

\* C8: the seconds slept inside one call never exceed sum(2^i, i = 0..max_retries-1).
C8_TotalSleepBounded ==
    Direct => SumSecs(log) <= 10 * SumPow2(max_retries)

\* network errors and rate limits that meet the bound exactly (7 s for max_retries = 3)
C8_Witness ==
    /\ Direct /\ pc = "done" /\ max_retries = 3
    /\ SumSecs(log) = 70
    /\ \E i \in 1..Len(log) : Status(log[i]) = "exc"

\* C9: at most max_retries requests per call; with every attempt used and no 200
\* the call returns None and raises nothing; it returns a value other than None
\* only if its last request returned 200.
C9_BoundedAttempts ==
    Direct =>
        LET g == Gets(log)
        IN  /\ Len(g) <= max_retries
            /\ pc # "raised"
            /\ (pc = "done" /\ \A j \in 1..Len(g) : Status(g[j]) # "200") => IsNone(data)
            /\ (pc = "done" /\ ~IsNone(data)) => (g # <<>> /\ Status(g[Len(g)]) = "200")
            /\ (pc = "fetch_with_retry") => Len(g) < max_retries

\* three failed attempts of three
C9_Witness ==
    /\ Direct /\ pc = "done" /\ max_retries = 3
    /\ Len(Gets(log)) = 3
    /\ IsNone(data)
    /\ Status(Gets(log)[1]) = "exc" /\ Status(Gets(log)[2]) = "500"

---------------------------------------------------------------------------
(* Claims about the page drains and the fallback chains. *)

India == entry = "fetch_india_data"
Openaq == entry = "fetch_openaq_data"
Parameter == entry = "fetch_parameter"
Done == pc = "done"

HasResults(e) == Status(e) = "200" /\ "results" \in DOMAIN e.resp.body
\* the records a request yielded: none unless it is a 200 with a "results" list
Yield(e) == IF HasResults(e) THEN e.resp.body.results ELSE <<>>
RECURSIVE ConcatYield(_)
ConcatYield(g) == IF g = <<>> THEN <<>> ELSE Yield(Head(g)) \o ConcatYield(Tail(g))
GetsAt(l, sites) == SelectSeq(l, LAMBDA e : e.ev = "get" /\ e.site \in sites)
Called(fn) == \E i \in 1..Len(log) : log[i] = CallEv(fn)
Range(f) == {f[x] : x \in DOMAIN f}

\* the columns every row builder and every generator of the three scripts sets
Columns ==
    {"date", "location", "city", "parameter", "value", "unit", "latitude",
     "longitude", "country"}

V3Sites == {"v3/locations"} \cup {V3Site(GoodLocation(k)) : k \in 1..(MaxLocations + 1)}
\* the endpoint request of try_locations_approach that yielded rows, if any
Yielding(e) ==
    /\ HasResults(e)
    /\ Yield(e) # <<>>
    /\ \A k \in 1..Len(Take(Yield(e), V2LocationCap)) : ~LocationRowRaises(Yield(e)[k])

\* C2: the sources are tried in their fixed order and the first one that yields
\* a record is the result: no later source is requested and no generator runs.
C2_ShortCircuit ==
    /\ Openaq =>
          \* v3 first, then the two location endpoints in order, then the generator
          /\ \A i \in 1..Len(log), j \in 1..Len(log) :
                /\ (log[i].ev = "get" /\ log[i].site \in V3Sites
                      /\ log[j].ev = "get" /\ log[j].site \in Range(endpoints)) => i < j
                /\ (log[i].site = endpoints[1] /\ log[j].site = endpoints[2]) => i < j
                /\ (log[i].ev = "get" /\ log[j].ev = "call") => i < j
          /\ (Done /\ all_measurements # <<>>) =>
                /\ df = all_measurements
                /\ GetsAt(log, Range(endpoints)) = <<>>
                /\ ~Called("create_sample_data")
          /\ \A i \in 1..Len(log) :
                (log[i].ev = "get" /\ log[i].site \in Range(endpoints) /\ Yielding(log[i])) =>
                    /\ Done
                    /\ i = Len(log)
                    /\ \E now \in Clock : df = LocationRows(Yield(log[i]), now)
    /\ (India /\ Done /\ process_measurements(all_measurements) # <<>>) =>
                /\ df = process_measurements(ConcatYield(Gets(log)))
                /\ Calls(log) = <<>>
    /\ Parameter =>
          /\ \A i \in 1..Len(log), j \in 1..Len(log) :
                /\ (log[i].site = ParamSite(param) /\ log[j].site \in Range(urls_to_try)) => i < j
                /\ (log[i].site = urls_to_try[1] /\ log[j].site = urls_to_try[2]) => i < j
          /\ (Done /\ Yield(log[1]) # <<>>) =>
                /\ GetsAt(log, Range(urls_to_try)) = <<>>
                /\ df = ParamRows(ConcatYield(Gets(log)), param)
          /\ \A i \in 1..Len(log) :
                (log[i].site \in Range(urls_to_try) /\ Yield(log[i]) # <<>>) =>
                    /\ Done
                    /\ i = Len(log)
                    /\ df = ParamV2Rows(Yield(log[i]))

\* source A (v3) yields nothing, source B (the first location endpoint) yields
\* records: the result is B's records and the generator is not called
C2_Witness ==
    /\ Openaq /\ Done
    /\ all_measurements = <<>>
    /\ log[Len(log)].site = endpoints[1]
    /\ Len(df) = MaxLocations
    /\ Calls(log) = <<>>

\* a source's first answer yields no record: a failure, or a 200 without records
FailedRequest(e) == Status(e) \in {"exc", "429", "500"}
EmptyAnswer(e) == Status(e) = "200" /\ NoResultsIn(e.resp.body)

\* C3 as stated: whenever a source yields zero records the next source is
\* tried, be the zero a failure or an empty successful response; fetch_parameter
\* tries the v2 endpoints in both cases of its first v3 page.
C3_ZeroAlwaysFallsThrough ==
    /\ (Openaq /\ Done /\ all_measurements = <<>>) =>
          GetsAt(log, {endpoints[1]}) # <<>>
    /\ (Parameter /\ Done /\ (FailedRequest(log[1]) \/ EmptyAnswer(log[1]))) =>
          GetsAt(log, {urls_to_try[1]}) # <<>>

\* C3 amended: in fetch_openaq_data a source that yields zero records, by
\* failure or by an empty response, is followed by the next source.
\* fetch_parameter hands over to the v2 endpoints exactly when its first v3 page
\* request fails (network exception or HTTP error status); a first page that is
\* a 200 with empty or missing results ends the call with an empty table and no
\* v2 request.  In fetch_parameter_v2 the second URL is tried after a failure
\* or an empty answer of the first.
C3_FallThrough ==
    /\ (Openaq /\ Done) =>
          /\ all_measurements = <<>> => GetsAt(log, {endpoints[1]}) # <<>>
          /\ \A i \in 1..Len(log) :
                (log[i].site = endpoints[1] /\ (FailedRequest(log[i]) \/ EmptyAnswer(log[i])))
                    => GetsAt(log, {endpoints[2]}) # <<>>
          /\ \A i \in 1..Len(log) :
                (log[i].site = endpoints[2] /\ (FailedRequest(log[i]) \/ EmptyAnswer(log[i])))
                    => Called("create_sample_data")
    /\ (Parameter /\ Done) =>
          /\ FailedRequest(log[1]) <=> GetsAt(log, {urls_to_try[1]}) # <<>>
          /\ EmptyAnswer(log[1]) => (Len(log) = 1 /\ df = <<>>)
          /\ \A i \in 1..Len(log) :
                (log[i].site = urls_to_try[1] /\ (FailedRequest(log[i]) \/ EmptyAnswer(log[i])))
                    => GetsAt(log, {urls_to_try[2]}) # <<>>

\* fetch_parameter whose first v3 page is a 200 with an empty result list
C3_Witness ==
    /\ Parameter /\ Done
    /\ Len(log) = 1
    /\ HasResults(log[1]) /\ Yield(log[1]) = <<>>
    /\ df = <<>>

\* C4 as stated: a result that comes from the generator carries the provenance
\* tag 'synthetic' and a result built from a live endpoint carries a live tag.
C4_ProvenanceTag ==
    ((India \/ Openaq) /\ Done) =>
        \A i \in 1..Len(df) :
            /\ "source" \in DOMAIN df[i]
            /\ df[i].source = IF Calls(log) # <<>> THEN "synthetic" ELSE "live"

\* C4 amended: when every live source has yielded zero records the result is
\* the generator's output, and otherwise the generator is not called; either way
\* the table has the same nine columns and no provenance column, so the table
\* alone does not say whether it is live or synthetic.
C4_SyntheticFallback ==
    /\ (India /\ Done) =>
          /\ process_measurements(ConcatYield(Gets(log))) = <<>>
                <=> Called("create_comprehensive_sample_data")
          /\ Called("create_comprehensive_sample_data") =>
                \E seed \in Seeds, now \in Clock : df = SampleTables[seed, now]
    /\ (Openaq /\ Done) =>
          /\ ( /\ all_measurements = <<>>
                /\ \A i \in 1..Len(log) :
                      log[i].site \in Range(endpoints) => ~Yielding(log[i]) )
                <=> Called("create_sample_data")
          /\ Called("create_sample_data") => df = create_sample_data
    /\ ((India \/ Openaq) /\ Done) =>
          \A i \in 1..Len(df) : DOMAIN df[i] = Columns

\* fetch_openaq_data with every request failed: the ten sample rows
C4_Witness ==
    /\ Openaq /\ Done
    /\ \A i \in 1..Len(log) : log[i].ev = "get" => FailedRequest(log[i])
    /\ Called("create_sample_data")
    /\ df = create_sample_data

\* C5 as stated: the synthetic fallback is scoped to the request: with every
\* live source failed it holds exactly 4 records, of one station and one day,
\* all PM2.5.
C5_ScopedFallback ==
    (India /\ Done /\ Called("create_comprehensive_sample_data")) =>
        /\ Len(df) = 4
        /\ \A i \in 1..Len(df) :
              /\ df[i].parameter = "pm25"
              /\ df[i].location = df[1].location

\* C5 amended: the synthetic fallback of fetch_india_data is not scoped to a
\* request (the entry point takes max_records only): whatever max_records is, it
\* holds 24 x 10 x 2 = 480 records, one per hour of the last 24 hours, built-in
\* city and parameter of {pm25, pm10}, in that loop order.
C5_FullSampleTable ==
    (India /\ Done /\ Called("create_comprehensive_sample_data")) =>
        /\ Len(df) = 24 * 10 * 2
        /\ \E now \in Clock :
              \A i \in 1..Len(df) :
                  /\ df[i].date = "T" \o ToString(now - ((i - 1) \div 20)) \o "Z"
                  /\ df[i].city = cities_data[(((i - 1) % 20) \div 2) + 1].city
                  /\ df[i].parameter = IF i % 2 = 1 THEN "pm25" ELSE "pm10"

\* every attempt of page 1 failed, for a request of max_records = 1
C5_Witness ==
    /\ India /\ Done /\ max_records = 1
    /\ Len(Gets(log)) = 3
    /\ \A i \in 1..Len(log) : log[i].ev = "get" => FailedRequest(log[i])
    /\ Len(df) = 480

\* the requests of a drain all answered 200 with a "results" list
AllPagesServed == \A i \in 1..Len(log) : log[i].ev = "get" => HasResults(log[i])
\* a page that ends the drain: fewer records than the page size, or none
EndsDrain(e) == Len(Yield(e)) < limit \/ Yield(e) = <<>>

\* C10: a drain whose requests are all served asks for pages 1, 2, 3, ... in
\* order, stops at the first page that is short or empty and returns the
\* concatenation of the pages up to and including that one.
C10_DrainToFirstShortPage ==
    ((India \/ (Parameter /\ pc # "fetch_parameter_v2")) /\ AllPagesServed) =>
        LET g == Gets(log)
        IN  /\ \A j \in 1..Len(g) : g[j].page = j
            /\ \A j \in 1..(Len(g) - 1) : ~EndsDrain(g[j])
            /\ Done <=> (g # <<>> /\ EndsDrain(g[Len(g)]))
            /\ ~Done => page = Len(g) + 1
            /\ India => all_measurements = ConcatYield(g)
            /\ Parameter => rows = ParamRows(ConcatYield(g), param)
            /\ (Done /\ Parameter) => df = rows

\* pages of sizes [2, 2, 1] under page size 2: three requests, five records
C10_Witness ==
    /\ India /\ Done /\ AllPagesServed /\ limit = 2
    /\ Len(Gets(log)) = 3
    /\ Len(Yield(Gets(log)[1])) = 2
    /\ Len(Yield(Gets(log)[2])) = 2
    /\ Len(Yield(Gets(log)[3])) = 1
    /\ Len(all_measurements) = 5

---------------------------------------------------------------------------
(* Claims about the end of a drain: termination, the record cap, a failure *)
(* in mid-stream.                                                          *)

Drain == India \/ (Parameter /\ pc # "fetch_parameter_v2")
\* a request answered 200 with a page of page-size records
FullPage(e) == HasResults(e) /\ Yield(e) # <<>> /\ Len(Yield(e)) >= limit
EveryPageFull == \A i \in 1..Len(log) : log[i].ev = "get" => FullPage(log[i])

\* C11 as stated: the drain stops under every behaviour of the endpoint.  An
\* endpoint has finitely many answers to a request, so the drain stops under
\* every behaviour only if some number of requests bounds it; in particular the
\* endpoint that has answered each of the MaxRequests requests followed here
\* with a full page has been left by then.
C11_DrainTerminates ==
    (Drain /\ EveryPageFull /\ Len(Gets(log)) = MaxRequests) => Done

\* every request so far answered with a full page, and the next page is due
C11_Witness ==
    /\ Drain /\ EveryPageFull /\ ~Done
    /\ Len(Gets(log)) = MaxRequests
    /\ page = MaxRequests + 1
    /\ India => Len(all_measurements) = MaxRequests * limit
    /\ Parameter => Len(rows) = MaxRequests * limit

\* the number of records the requests before log[i] yielded
YieldBefore(i) == Len(ConcatYield(Gets(SubSeq(log, 1, i - 1))))

\* C12 as stated: the live table of fetch_india_data(max_records) holds at most
\* max_records records, and no further page is requested once max_records
\* records have been collected.
C12_RecordCapEnforced ==
    India =>
        /\ (Done /\ Calls(log) = <<>>) => Len(df) <= max_records
        /\ \A i \in 1..Len(log) :
              (log[i].ev = "get" /\ log[i].page > 1) => YieldBefore(i) < max_records

\* max_records = 2 against pages of sizes [2, 2, 1]: five live records
C12_Witness ==
    /\ India /\ Done /\ max_records = 2
    /\ Calls(log) = <<>>
    /\ Len(Gets(log)) = 3
    /\ Len(df) = 5

\* the request for page k > 1 failed after pages 1..k-1 were full: in
\* fetch_measurements_v2 fetch_with_retry returned None, in fetch_parameter the
\* request raised
MidstreamFailure ==
    /\ Done /\ page >= 2
    /\ \/ India /\ IsNone(data)
       \/ Parameter /\ FailedRequest(log[Len(log)])
\* what the caller receives: the table, or an exception
Returned == [table |-> df, raised |-> pc = "raised"]
\* what the caller receives when the same records are followed by an empty page
NaturalEnd(records) ==
    IF Parameter
    THEN {[table |-> ParamRows(records, param), raised |-> FALSE]}
    ELSE IF process_measurements(records) # <<>>
    THEN {[table |-> process_measurements(records), raised |-> FALSE]}
    ELSE {[table |-> SampleTables[seed, now], raised |-> FALSE] :
             seed \in Seeds, now \in Clock}

\* C13 as stated: after such a failure the drain stops, keeps exactly the
\* records of pages 1..k-1 and signals that the result is partial: what the
\* caller receives differs from what a natural end of the same data gives.
C13_PartialSignalled ==
    MidstreamFailure =>
        /\ Len(ConcatYield(Gets(log))) = (page - 1) * limit
        /\ India => all_measurements = ConcatYield(Gets(log))
        /\ Parameter => rows = ParamRows(ConcatYield(Gets(log)), param)
        /\ Returned \notin NaturalEnd(ConcatYield(Gets(log)))

\* C13 amended: after such a failure the drain stops and keeps exactly the
\* records of pages 1..k-1, and nothing tells the caller that the result is
\* partial: no exception, and the very table a natural end of the same data gives.
C13_PartialKeptUnsignalled ==
    MidstreamFailure =>
        /\ Len(ConcatYield(Gets(log))) = (page - 1) * limit
        /\ India => all_measurements = ConcatYield(Gets(log))
        /\ Parameter => rows = ParamRows(ConcatYield(Gets(log)), param)
        /\ Returned \in NaturalEnd(ConcatYield(Gets(log)))

\* fetch_parameter: two full pages, then a network error on page 3
C13_Witness ==
    /\ Parameter /\ MidstreamFailure
    /\ page = 3
    /\ Status(log[Len(log)]) = "exc"
    /\ Len(df) = 2 * PageLimit

---------------------------------------------------------------------------
(* Claims about the generators, under GeneratorSpec. *)

\* the records written so far by the running or finished run
Generated == IF Generator2023 THEN all_data ELSE <<>>
RecordsPerStation == 365 * 4 * 2

\* C14: every record the 2023 generator writes has 5 <= value <= 500 when its
\* parameter is PM2.5 and 10 <= value <= 800 when it is PM10 (values in tenths).
C14_ValuesWithinRange ==
    \A i \in 1..Len(Generated) :
        LET r == Generated[i]
        IN  /\ r.parameter \in {"PM2.5", "PM10"}
            /\ r.parameter = "PM2.5" => (50 <= r.value /\ r.value <= 5000)
            /\ r.parameter = "PM10" => (100 <= r.value /\ r.value <= 8000)

\* a finished run over the station with the lowest baselines, where the raw
\* PM10 value of a September midnight falls below 10 and is raised to 10.0
C14_Witness ==
    /\ Generator2023 /\ pc = "done"
    /\ monitoring_stations[stations[1]].pm10_base = 55
    /\ \E i \in 1..Len(df) :
          /\ df[i].parameter = "PM10" /\ df[i].value = 100
          /\ df[i].month = 9 /\ df[i].hour = 24
          /\ RawValue(55, Calendar[267], 24, Uniform(random_seed, 266 * 4 + 3, 70, 130)) < 10000

\* C15 as stated: in every record the season label and the seasonal factor
\* used for its value come from the same partition of the months: Winter iff
\* 1.4, Summer iff 1.1, Monsoon iff 0.7, Post-Monsoon iff 1.2.
C15_SeasonMatchesFactor ==
    \A i \in 1..Len(Generated) :
        LET r == Generated[i]
            factor == seasonal_factor(r.month)
        IN  /\ r.season = "Winter" <=> factor = 14
            /\ r.season = "Summer" <=> factor = 11
            /\ r.season = "Monsoon" <=> factor = 7
            /\ r.season = "Post-Monsoon" <=> factor = 12

\* a November record: labelled Post-Monsoon, computed with the factor 1.4
C15_Witness ==
    /\ Generator2023 /\ pc = "done"
    /\ \E i \in 1..Len(df) :
          /\ df[i].month = 11
          /\ df[i].season = "Post-Monsoon"
          /\ seasonal_factor(df[i].month) = 14

\* the (station, day, sample hour, parameter) a record is written for
Combination(r) == <<r.station_name, r.date, r.hour, r.parameter>>
\* the combination of the i-th record of a run, by the order of the loops
CombinationAt(i) ==
    LET s == (i - 1) \div RecordsPerStation
        d == ((i - 1) % RecordsPerStation) \div 8
        h == ((i - 1) % 8) \div 2
    IN  << monitoring_stations[stations[s + 1]].station,
           DateStr(d + 1),
           <<6, 12, 18, 24>>[h + 1],
           IF i % 2 = 1 THEN "PM2.5" ELSE "PM10" >>

\* C16: the generator writes exactly one record per station, day of 2023,
\* sample hour of {6, 12, 18, 24} and parameter of {PM2.5, PM10}: stations x
\* 365 x 4 x 2 records, none missing and none repeated, 4 per day, station and
\* parameter.
C16_OneRecordPerCombination ==
    Generator2023 =>
        /\ pc = "create_comprehensive_2023_dataset" =>
              Len(all_data) = (station_i - 1) * RecordsPerStation
        /\ pc = "done" =>
              /\ Len(df) = Len(stations) * 365 * 4 * 2
              /\ \A i \in 1..Len(df) : Combination(df[i]) = CombinationAt(i)
              /\ Cardinality({Combination(df[i]) : i \in 1..Len(df)}) = Len(df)
              /\ \A i \in 1..(Len(df) \div 8) :
                    {df[8 * (i - 1) + 2 * h - 1].hour : h \in 1..4} = {6, 12, 18, 24}

\* a finished run: 2920 records for one station, the last one of 31 December,
\* hour 24
C16_Witness ==
    /\ Generator2023 /\ pc = "done"
    /\ Len(stations) = 1
    /\ Len(df) = 2920
    /\ Combination(df[2920]) = <<monitoring_stations[stations[1]].station, "2023-12-31", 24, "PM10">>

TwoRuns == pc = "done" /\ ~IsNone(earlier)
\* a record with its value, or its date, blanked
ButValue(r) == [r EXCEPT !.value = 0]
ButDate(r) == [r EXCEPT !.date = ""]

\* C17 as stated: two runs of a generator with the same station table, year
\* and seed produce identical record sequences.
C17_SameSeedSameRecords ==
    (TwoRuns /\ earlier.seed = random_seed) => df = earlier.table

\* C17 amended: two runs of create_comprehensive_2023_dataset over the same
\* stations write the same records in the same order but for the values, and
\* identical sequences when the random source begins in the same state; two
\* runs of create_comprehensive_sample_data that begin in the same state of
\* the random source write sequences that are identical exactly when the
\* clock read the same, and that otherwise differ in every date and only there.
C17_DeterministicButForClock ==
    TwoRuns =>
        /\ Len(df) = Len(earlier.table)
        /\ Generator2023 =>
              /\ \A i \in 1..Len(df) : ButValue(df[i]) = ButValue(earlier.table[i])
              /\ earlier.seed = random_seed => df = earlier.table
        /\ (GeneratorSample /\ earlier.seed = random_seed) =>
              /\ \A i \in 1..Len(df) : ButDate(df[i]) = ButDate(earlier.table[i])
              /\ earlier.now = base_time <=> df = earlier.table
              /\ earlier.now # base_time =>
                    \A i \in 1..Len(df) : df[i].date # earlier.table[i].date

\* two calls of create_comprehensive_sample_data from the same state of the
\* random source, an hour apart
C17_Witness ==
    /\ TwoRuns /\ GeneratorSample
    /\ earlier.seed = random_seed
    /\ earlier.now # base_time
    /\ df # earlier.table
    /\ df[1].value = earlier.table[1].value

---------------------------------------------------------------------------
(* Claims about the assembler: main.py's main. *)

Assembled == entry = "main" /\ pc = "done"
SetOf(table) == {table[k] : k \in 1..Len(table)}
DroppedAgain == entry = "main" /\ ~IsNone(earlier)

\* C18: the concatenate-and-drop-duplicates step of main, applied to the table
\* it produced, gives that table back: the same records, each as often as
\* before and in the same order, hence the same set of records as one
\* application.
C18_DedupIdempotent ==
    DroppedAgain =>
        /\ df_combined = earlier.table
        /\ SetOf(df_combined) = SetOf(earlier.table)
\* a step that dropped rows from three fetched rows, and then ran again
C18_Witness ==
    /\ DroppedAgain
    /\ Len(df_pm25) + Len(df_pm10) = MaxRows
    /\ Len(earlier.table) < Len(df_pm25) + Len(df_pm10)
    /\ SetOf(earlier.table) = SetOf(df_pm25 \o df_pm10)

Key(row) == <<row.date, row.location, row.parameter>>
Fetched == df_pm25 \o df_pm10

\* C19: after assembly and deduplication no two records of the table share
\* the same (timestamp, location, parameter) key, whatever the two fetched
\* tables were, also when two fetched records have the same key and another
\* value.
C19_KeyUnique ==
    Assembled =>
        \A i, j \in 1..Len(df) : i # j => Key(df[i]) # Key(df[j])
\* C19 amended: after deduplication no two records of the table are equal in
\* every field, and every fetched record is in the table: two fetched records
\* of one key and different values are both kept.
C19_FullRecordUnique ==
    (Assembled /\ IsNone(earlier)) =>
        /\ \A i, j \in 1..Len(df_combined) : i # j => df_combined[i] # df_combined[j]
        /\ Fetched # <<>> => SetOf(df_combined) = SetOf(Fetched)
        /\ Len(df) = Len(df_combined)
\* two fetched records of one key and two values next to an exact copy: the
\* copy is dropped, the two values stay
C19_Witness ==
    /\ Assembled
    /\ Len(Fetched) = 3
    /\ Len(df) = 2
    /\ Key(df[1]) = Key(df[2])
    /\ df[1].value # df[2].value

---------------------------------------------------------------------------
(* Claims about the order of the table main and fetch_openaq_alternative.py's
   main return. *)

Written == pc = "done" /\ entry \in {"main", "alternative_main"} /\ df # <<>>
\* the instant of a date of the table, converted or not; 0 when it has none
InstantOf(date) ==
    IF date \in {"2024-01-01T12:00:00Z", "2024-01-01T12:00:00+00:00",
                 "2024-01-01 12:00:00+00:00"} THEN 12
    ELSE IF date \in {"2024-01-01T13:00:00Z", "2024-01-01 13:00:00+00:00"} THEN 13
    ELSE 0
\* the places of the stations and of the parameters in the order of strings
LocationRank(location) ==
    CASE location = "Anand Vihar" -> 1
      [] location = "Bandra" -> 2
      [] location = "Sample Location 1" -> 3
      [] location = "Sample Location 2" -> 4
ParameterRank(parameter) == IF parameter = "pm10" THEN 1 ELSE 2
\* a precedes-or-equals b by timestamp descending, then station, then parameter
InClaimedOrder(a, b) ==
    \/ InstantOf(a.date) > InstantOf(b.date)
    \/ /\ InstantOf(a.date) = InstantOf(b.date)
       /\ \/ LocationRank(a.location) < LocationRank(b.location)
          \/ /\ a.location = b.location
             /\ ParameterRank(a.parameter) <= ParameterRank(b.parameter)
IsPermutationOf(table, other) ==
    /\ Len(table) = Len(other)
    /\ \E p \in Permutations(1..Len(table)) :
          table = [k \in 1..Len(table) |-> other[p[k]]]

\* C20: the table is ordered by timestamp descending, and records of equal
\* timestamps by station id and then by parameter, so that the order is
\* decided by the set of records and not by their arrival.
C20_OrderedByTimestampStationParameter ==
    Written =>
        \A i, j \in 1..Len(df) : i < j => InClaimedOrder(df[i], df[j])
\* C20 amended: when every date can be parsed the table holds the records with
\* their dates converted, ordered by timestamp descending with the missing
\* dates last, and nothing more: records of equal timestamps are in no
\* promised order. When a date cannot be parsed the table is left as it
\* arrived, dates unconverted.
C20_OrderedByTimestampOnly ==
    (Written /\ IsNone(earlier)) =>
        IF ParseFails(df_combined)
        THEN df = df_combined
        ELSE /\ IsPermutationOf(df, WithDatetimes(df_combined))
             /\ \A i, j \in 1..Len(df) : i < j =>
                   \/ df[j].date = NaT
                   \/ /\ df[i].date # NaT
                      /\ InstantOf(df[i].date) >= InstantOf(df[j].date)
\* a later record arrived last and was moved to the front, ahead of two records
\* of one timestamp that are left with the later station first
C20_Witness ==
    /\ Written
    /\ Len(df) = 3
    /\ ~ParseFails(df_combined)
    /\ InstantOf(df_combined[3].date) > InstantOf(df_combined[1].date)
    /\ df[1] = WithDatetimes(df_combined)[3]
    /\ InstantOf(df[2].date) = InstantOf(df[3].date)
    /\ LocationRank(df[2].location) > LocationRank(df[3].location)

---------------------------------------------------------------------------
(* Claims about the row builders, each on one page of raw records. *)

Normalized ==
    /\ pc = "done"
    /\ entry \in {"process_measurements", "fetch_parameter.rows",
                  "fetch_parameter_v2.rows", "try_openaq_v3.rows"}
\* the builders that read the v2 record layout
ReadsV2 == entry \in {"process_measurements", "fetch_parameter_v2.rows"}
\* a raw record is null or holds a null where a dict is expected
HoldsNull(m) ==
    \/ IsNone(m)
    \/ \E f \in DOMAIN m \cap (IF ReadsV2 THEN {"date", "coordinates"}
                                ELSE {"parameter", "coordinates"}) : IsNone(m[f])
\* the timestamp and the value the upstream gave in a raw record, "" when none
RawTimestamp(m) ==
    IF ReadsV2 THEN DictGet(DictGet(m, "date", EmptyDict), "utc", "")
    ELSE DictGet(m, "datetime", "")
RawValueOf(m) == DictGet(m, "value", "")
\* a row of the table was built from the raw record m
RowOf(row, m) == row.date = RawTimestamp(m) /\ row.value = RawValueOf(m)
\* try_openaq_v3 reaches the k-th record of the page
ReachedRecord(k) ==
    entry = "try_openaq_v3.rows" =>
        \A j \in 1..(k - 1) : ~HoldsNull(all_measurements[j])

\* C21: the normalizer drops every raw record that has no value or no
\* timestamp: no row of the normalized table has an empty value or an empty
\* timestamp.
C21_IncompleteDropped ==
    Normalized => \A k \in 1..Len(df) : df[k].value # "" /\ df[k].date # ""
\* C21 amended: a raw record without a value or without a timestamp is not
\* dropped: when it holds no null and the builder reaches it, the table has its
\* row, with "" in the place of what is missing; and a row has an empty value
\* or timestamp only when its raw record had none.
C21_IncompleteKeptEmpty ==
    Normalized =>
        /\ \A k \in 1..Len(all_measurements) :
              LET m == all_measurements[k]
              IN  (/\ ~HoldsNull(m)
                   /\ ReachedRecord(k)
                   /\ RawValueOf(m) = "" \/ RawTimestamp(m) = "")
                  => \E i \in 1..Len(df) : RowOf(df[i], m)
        /\ \A i \in 1..Len(df) :
              (df[i].value = "" \/ df[i].date = "")
              => \E k \in 1..Len(all_measurements) :
                    ~IsNone(all_measurements[k]) /\ RowOf(df[i], all_measurements[k])
\* process_measurements on a well-formed record, one without value and one
\* without date: three rows, one of an empty value, one of an empty date
C21_Witness ==
    /\ Normalized
    /\ entry = "process_measurements"
    /\ Len(all_measurements) = 3
    /\ Len(df) = 3
    /\ df[1].value # "" /\ df[1].date # ""
    /\ df[2].value = "" /\ df[2].date # ""
    /\ df[3].value # "" /\ df[3].date = ""

NormalizedV3 == pc = "done" /\ entry = "try_openaq_v3.rows"
\* the parameter id of a raw v3 record, 0 when it has none
ParameterIdOf(m) ==
    IF "parameter" \in DOMAIN m /\ "id" \in DOMAIN m.parameter THEN m.parameter.id ELSE 0
\* the label defined for a parameter id of the v3 API
LabelOfId(id) == IF id = 2 THEN "pm25" ELSE "pm10"

\* C22: try_openaq_v3 drops a raw record whose parameter id is neither 1 (PM10)
\* nor 2 (PM2.5): every row labelled pm10 was built from a record of id 1 and
\* every row labelled pm25 from a record of id 2.
C22_UnknownIdDropped ==
    NormalizedV3 =>
        \A i \in 1..Len(df) :
            \E k \in 1..Len(all_measurements) :
                /\ ~HoldsNull(all_measurements[k])
                /\ RowOf(df[i], all_measurements[k])
                /\ ParameterIdOf(all_measurements[k]) \in {1, 2}
                /\ df[i].parameter = LabelOfId(ParameterIdOf(all_measurements[k]))
\* what try_openaq_v3 does with the parameter id: it drops no record for it; a
\* record it reaches that holds no null has its row, labelled pm25 when its id
\* is 2 and pm10 otherwise, also when the id is unknown or absent
UnknownIdLabelledPm10 ==
    NormalizedV3 =>
        \A k \in 1..Len(all_measurements) :
            LET m == all_measurements[k]
            IN  (~HoldsNull(m) /\ ReachedRecord(k)) =>
                    \E i \in 1..Len(df) :
                        /\ RowOf(df[i], m)
                        /\ df[i].parameter = (IF ParameterIdOf(m) = 2 THEN "pm25" ELSE "pm10")
\* a page of a record of id 2, one of id 3 and one without parameter: three
\* rows, labelled pm25, pm10, pm10
C22_Witness ==
    /\ NormalizedV3
    /\ Len(all_measurements) = 3
    /\ ~HoldsNull(all_measurements[1])
    /\ ~HoldsNull(all_measurements[2])
    /\ ~HoldsNull(all_measurements[3])
    /\ ParameterIdOf(all_measurements[1]) = 2
    /\ ParameterIdOf(all_measurements[2]) = 3
    /\ ParameterIdOf(all_measurements[3]) = 0
    /\ Len(df) = 3
    /\ <<df[1].parameter, df[2].parameter, df[3].parameter>> = <<"pm25", "pm10", "pm10">>

\* every raw record of the page that holds no null has its row in the table
WellFormedAllPresent ==
    \A k \in 1..Len(all_measurements) :
        ~HoldsNull(all_measurements[k]) =>
            \E i \in 1..Len(df) : RowOf(df[i], all_measurements[k])

\* C23: a malformed record never aborts its batch: when building the row of one
\* record of a page fails, only that record is dropped, and every well-formed
\* record of the page, before and after it, is in the output.
C23_MalformedDropsOnlyItself == Normalized => WellFormedAllPresent
\* what holds instead: process_measurements, fetch_parameter and
\* fetch_parameter_v2 catch the failure per record and keep every well-formed
\* record; try_openaq_v3 catches it per location and keeps the well-formed
\* records that precede the first failing one, and no other
PerRecordHandlersKeepTheRest ==
    Normalized =>
        IF entry # "try_openaq_v3.rows"
        THEN WellFormedAllPresent
        ELSE Len(df) = Cardinality({k \in 1..Len(all_measurements) :
                                       \A j \in 1..k : ~HoldsNull(all_measurements[j])})
\* try_openaq_v3 on a page of a well-formed record, one of a null parameter and
\* another well-formed one: the table has the first record alone
C23_Witness ==
    /\ NormalizedV3
    /\ Len(all_measurements) = 3
    /\ ~HoldsNull(all_measurements[1])
    /\ HoldsNull(all_measurements[2])
    /\ ~HoldsNull(all_measurements[3])
    /\ Len(df) = 1
    /\ RowOf(df[1], all_measurements[1])

---------------------------------------------------------------------------
(* Claims about fetch_parameter called with a name that is no parameter. *)

UnknownParameter == entry = "fetch_parameter" /\ param \notin Params

\* C24: a request whose parameter is neither pm25 nor pm10 is a hard failure:
\* fetch_parameter issues no request for it and returns no record labelled
\* with the unknown parameter.
C24_UnknownParameterRejected ==
    UnknownParameter =>
        /\ Gets(log) = <<>>
        /\ \A k \in 1..Len(df) : df[k].parameter # param
\* what fetch_parameter does instead: it requests parameter id 1 (PM10) and
\* labels every record of the v3 endpoint with the name it was called with
UnknownParameterFetchedAsPm10 ==
    (UnknownParameter /\ pc = "done") =>
        /\ Len(Gets(log)) >= 1
        /\ Gets(log)[1].site = "v3/measurements?parameters_id=1"
        /\ \A i \in 1..Len(Gets(log)) :
              (Gets(log)[i].site = "v3/measurements?parameters_id=1"
               /\ Gets(log)[i].resp.status = "200"
               /\ "results" \in DOMAIN Gets(log)[i].resp.body)
              => \A r \in 1..Len(Gets(log)[i].resp.body.results) :
                    \E k \in 1..Len(df) :
                        /\ df[k].parameter = param
                        /\ df[k].location = Gets(log)[i].resp.body.results[r].location
\* fetch_parameter("o3") returned the records of a PM10 page, labelled o3
C24_Witness ==
    /\ UnknownParameter
    /\ pc = "done"
    /\ Len(Gets(log)) = 1
    /\ Gets(log)[1].site = "v3/measurements?parameters_id=1"
    /\ Len(df) = 1
    /\ df[1].parameter = "o3"
    /\ df[1].value = Gets(log)[1].resp.body.results[1].value

---------------------------------------------------------------------------
(* Claims about the delay between the pages of a drain. *)

\* the sleeps of the two drains (comprehensive_openaq_fetcher.py:132, main.py:68)
IsPoliteness(e) ==
    e.ev = "sleep" /\ e.site \in {"fetch_measurements_v2", "fetch_parameter"}
\* a request of a drain (fetch_parameter_v2 asks each endpoint for one page and
\* drains nothing) answered 200 with as many records as the page size
GotFullPage(e) ==
    /\ e.ev = "get"
    /\ e.site \notin Range(urls_to_try)
    /\ e.resp.status = "200"
    /\ "results" \in DOMAIN e.resp.body
    /\ e.resp.body.results # <<>>
    /\ Len(e.resp.body.results) = limit
\* the first request of its page
FirstOfPage(i) ==
    /\ log[i].ev = "get"
    /\ \A j \in 1..(i - 1) : log[j].ev = "get" => log[j].page < log[i].page

\* C25: in a drain, the requests of two consecutive pages are separated by
\* exactly one politeness delay of 0.5 s, taken after a full page was received
\* and before the next page is requested, and no politeness delay follows the
\* last page, be it short, empty or failed.
C25_OneDelayBetweenPages ==
    (India \/ Parameter) =>
        /\ \A i \in 1..Len(log) :
              IsPoliteness(log[i]) =>
                  /\ log[i].secs = 5
                  /\ i > 1
                  /\ GotFullPage(log[i - 1])
                  /\ i < Len(log) =>
                        /\ log[i + 1].ev = "get"
                        /\ log[i + 1].page = log[i - 1].page + 1
        /\ \A i \in 1..Len(log) :
              (FirstOfPage(i) /\ log[i].page > 1) =>
                  /\ i > 2
                  /\ IsPoliteness(log[i - 1])
                  /\ log[i - 2].ev = "get"
                  /\ log[i - 2].page = log[i].page - 1
        /\ \A i \in 1..(Len(log) - 1) :
              GotFullPage(log[i]) => IsPoliteness(log[i + 1])
        /\ (Done /\ log # <<>>) =>
              /\ ~IsPoliteness(log[Len(log)])
              /\ ~GotFullPage(log[Len(log)])
\* a drain of two full pages and a short one: request, delay, request, delay,
\* request, and the call has returned
C25_Witness ==
    /\ India \/ Parameter
    /\ Done
    /\ Len(log) = 5
    /\ GotFullPage(log[1]) /\ IsPoliteness(log[2])
    /\ GotFullPage(log[3]) /\ IsPoliteness(log[4])
    /\ log[5].ev = "get" /\ log[5].page = 3 /\ log[5].resp.status = "200"

---------------------------------------------------------------------------
(* Claims about the order of the records a drain returns. *)

\* the call returned records of the live endpoints
ReturnedLive ==
    /\ Done
    /\ India \/ Parameter
    /\ \A i \in 1..Len(log) : log[i].ev # "call"
\* the places <<request, position>> of the trace a row of the table came from:
\* every record of the endpoints carries its own location name
PlacesOf(row) ==
    {<<i, k>> \in (1..Len(log)) \X (1..limit) :
        /\ log[i].ev = "get"
        /\ log[i].resp.status = "200"
        /\ "results" \in DOMAIN log[i].resp.body
        /\ k <= Len(log[i].resp.body.results)
        /\ log[i].resp.body.results[k].location = row.location}
ArrivedBefore(a, b) == a[1] < b[1] \/ (a[1] = b[1] /\ a[2] < b[2])

\* C26: the records a drain returns, normalized, are in arrival order: in
\* increasing page order and, within a page, in the order of the response's
\* results list.
C26_ArrivalOrderKept ==
    ReturnedLive =>
        /\ \A i, j \in 1..Len(df) :
              i < j => \E a \in PlacesOf(df[i]), b \in PlacesOf(df[j]) :
                          /\ ArrivedBefore(a, b)
                          /\ log[a[1]].page <= log[b[1]].page
        /\ \A i \in 1..Len(df) : Cardinality(PlacesOf(df[i])) = 1
\* fetch_parameter returned a full page followed by a short one: the two
\* records of page 1 in their order, then the record of page 2
C26_Witness ==
    /\ ReturnedLive
    /\ Parameter
    /\ Len(df) = 3
    /\ PlacesOf(df[1]) = {<<1, 1>>}
    /\ PlacesOf(df[2]) = {<<1, 2>>}
    /\ PlacesOf(df[3]) = {<<3, 1>>}
    /\ log[3].page = 2

---------------------------------------------------------------------------
(* Claims about the values of the records of the live endpoints. *)

\* a call that returned what a live endpoint answered, no generated table
LiveTable ==
    /\ Done
    /\ India \/ Parameter \/ Openaq
    /\ \A i \in 1..Len(log) : log[i].ev # "call"
\* the answers of the trace that carry result lists
Answers == {i \in 1..Len(log) : /\ log[i].ev = "get"
                                /\ log[i].resp.status = "200"
                                /\ "results" \in DOMAIN log[i].resp.body}
\* the row has the value and the timestamp the upstream record m reported
ReportedBy(row, m) ==
    /\ row.value = DictGet(m, "value", "")
    /\ row.date \in {DictGet(m, "datetime", ""),
                     DictGet(DictGet(m, "date", EmptyDict), "utc", "")}
PassedThrough(row) ==
    \E i \in Answers :
        \E k \in 1..Len(log[i].resp.body.results) :
            ReportedBy(row, log[i].resp.body.results[k])
\* the table is the one try_locations_approach built
FromLocationsApproach ==
    /\ Openaq
    /\ \E i \in Answers : log[i].site \in Range(endpoints)

\* C27: on the live path the value of every returned record is the value the
\* upstream endpoint reported for that record, passed through unmodified; no
\* source of the live chain returns a record whose value the pipeline made up.
C27_LiveValuesPassedThrough ==
    LiveTable => \A k \in 1..Len(df) : PassedThrough(df[k])
\* C27 amended: the records of the measurement endpoints are returned with the
\* values upstream reported; the table of try_locations_approach is not: it has
\* one record per location the endpoint listed, each with the fixed value 45.5,
\* which no endpoint reported.
C27_LiveValuesButLocations ==
    LiveTable =>
        IF FromLocationsApproach
        THEN /\ df # <<>>
             /\ \A k \in 1..Len(df) : df[k].value = "455" /\ ~PassedThrough(df[k])
             /\ \E i \in Answers : /\ log[i].site \in Range(endpoints)
                                   /\ Len(df) = Len(log[i].resp.body.results)
        ELSE \A k \in 1..Len(df) : PassedThrough(df[k])
\* fetch_openaq_data returned the table of try_locations_approach: two
\* locations, two records of value 45.5
C27_Witness ==
    /\ LiveTable
    /\ FromLocationsApproach
    /\ Len(df) = 2
    /\ df[1].value = "455" /\ df[2].value = "455"
    /\ df[1].location # df[2].location

---------------------------------------------------------------------------
(* Claims about the last attempt of fetch_with_retry. *)

IsBackoff(e) == e.ev = "sleep" /\ e.site = "fetch_with_retry"

\* C28: fetch_with_retry never sleeps after its final attempt: every back-off
\* sleep is followed by another request, whether the final attempt ended in a
\* 429 or in a network exception.
C28_NoSleepAfterFinalAttempt ==
    (Direct /\ Done) =>
        \A i \in 1..Len(log) :
            IsBackoff(log[i]) => (i < Len(log) /\ log[i + 1].ev = "get")
\* what holds instead: a call that used up its attempts ends on a sleep exactly
\* when its final attempt was answered 429; after a final network exception,
\* or any other final answer, it returns at once
SleepsAfterFinal429Only ==
    (Direct /\ Done /\ log # <<>>) =>
        LET g == Gets(log)
        IN  IsBackoff(log[Len(log)]) <=>
                /\ Len(g) = max_retries
                /\ g[Len(g)].resp.status = "429"
\* a call whose every attempt was rate-limited: the last event of its trace is
\* the sleep after the final 429
C28_Witness ==
    /\ Direct
    /\ Done
    /\ max_retries = 3
    /\ Len(Gets(log)) = 3
    /\ Len(log) = 6
    /\ log[5].ev = "get" /\ log[5].resp.status = "429"
    /\ IsBackoff(log[6])
    /\ log[6].secs = 40
    /\ IsNone(data)

---------------------------------------------------------------------------
(* Claims about the timestamps of the generated records. *)

GeneratedTable == Generator2023 /\ pc = "done"
TimeKey(r) == <<r.datetime, r.station_name, r.parameter>>

\* C29: in the table the 2023 generator writes, no two records share the same
\* (datetime, station_name, parameter), the hour-24 records included, whose
\* datetime is built with hour % 24; the stations of the table bear different
\* names.
C29_TimestampKeyUnique ==
    GeneratedTable =>
        /\ Cardinality({TimeKey(df[i]) : i \in 1..Len(df)}) = Len(df)
        /\ \A s, t \in 1..Len(monitoring_stations) :
              s # t => monitoring_stations[s].station # monitoring_stations[t].station
\* a table with the hour-24 record of 1 January at 00:00 of 1 January, next to
\* the hour-6 record of the same day, station and parameter
C29_Witness ==
    /\ GeneratedTable
    /\ df[1].hour = 6 /\ df[1].datetime = "2023-01-01 06:00:00"
    /\ df[7].hour = 24 /\ df[7].datetime = "2023-01-01 00:00:00"
    /\ df[1].station_name = df[7].station_name
    /\ df[1].parameter = df[7].parameter

\* the hour of day written in a 'datetime' and in a 'time' field
HourOfDatetime(r) ==
    CHOOSE h \in 0..23 : r.datetime = r.date \o " " \o Pad2(h) \o ":00:00"
OnItsDate(r) == \E h \in 0..23 : r.datetime = r.date \o " " \o Pad2(h) \o ":00:00"
HourOfTime(r) == CHOOSE h \in 0..24 : r.time = Pad2(h) \o ":00:00"
\* the instant of a record, in hours since 2023-01-01 00:00:00
HoursSinceNewYear(r) ==
    LET d == CHOOSE d \in 1..DaysIn2023 : Calendar[d].date = r.date
    IN  24 * (d - 1) + HourOfDatetime(r)

\* C30: every generated record is consistent in time: the hour of day of its
\* 'datetime' equals its 'hour' field and its 'time' field, its 'datetime'
\* falls on its 'date', and within one station the records are written in
\* non-decreasing 'datetime' order.
C30_ConsistentInTime ==
    GeneratedTable =>
        /\ \A i \in 1..Len(df) :
              /\ OnItsDate(df[i])
              /\ HourOfDatetime(df[i]) = df[i].hour
              /\ HourOfDatetime(df[i]) = HourOfTime(df[i])
        /\ \A i \in 1..(Len(df) - 1) :
              df[i].station_name = df[i + 1].station_name =>
                  HoursSinceNewYear(df[i]) <= HoursSinceNewYear(df[i + 1])
\* what holds instead: 'time' and 'hour' always agree and 'datetime' is on its
\* 'date'; the hour of 'datetime' is the 'hour' field modulo 24, so the hour-24
\* records read 00:00:00 of their own date, 18 hours before the record that
\* precedes them
ConsistentButHour24 ==
    GeneratedTable =>
        /\ \A i \in 1..Len(df) :
              /\ OnItsDate(df[i])
              /\ HourOfTime(df[i]) = df[i].hour
              /\ HourOfDatetime(df[i]) = df[i].hour % 24
        /\ \A i \in 1..(Len(df) - 1) :
              (df[i].station_name = df[i + 1].station_name /\ df[i + 1].hour # 24) =>
                  HoursSinceNewYear(df[i]) <= HoursSinceNewYear(df[i + 1])
        /\ \A i \in 2..Len(df) :
              (df[i].hour = 24 /\ df[i - 1].hour = 18) =>
                  HoursSinceNewYear(df[i]) = HoursSinceNewYear(df[i - 1]) - 18
\* the hour-24 record of 1 January: 'time' 24:00:00, 'datetime' 00:00:00 of
\* the same day, written after the 18:00:00 record
C30_Witness ==
    /\ GeneratedTable
    /\ df[5].datetime = "2023-01-01 18:00:00"
    /\ df[7].hour = 24
    /\ df[7].time = "24:00:00"
    /\ df[7].date = "2023-01-01"
    /\ df[7].datetime = "2023-01-01 00:00:00"

=============================================================================
